---- MODULE Spec2Model ----
(***************************************************************************)
(* Researcher search backend: perform_real_search and the retrieval paths, *)
(* the young-researcher classifier, the query expander and the summary     *)
(* augmenter of src/real_search.py, with the client manager of             *)
(* src/gcp_auth.py.                                                        *)
(*                                                                         *)
(* Text is a sequence of tokens.  A token is one word or one morpheme; the *)
(* Japanese markers of the source are written in romaji, one token per     *)
(* morpheme, so that every substring relation between two markers of the   *)
(* source is a sub-sequence relation here:                                 *)
(*   kyoju = professor, jun kyoju = associate professor, jokyo = assistant *)
(*   professor, tokunin = specially appointed, kenkyuin = researcher,      *)
(*   koshi = lecturer, hakase = doctor, katei = course, koki = latter,     *)
(*   joshu = assistant, meiyo = emeritus, kyakuin = visiting, shuseki =    *)
(*   chief, tokatsu = supervisor, nen = year, sai = years old, umare =     *)
(*   born, shutoku = obtained, gakui = degree, shuryo = completed,         *)
(*   tanjo = birth, genzai = currently, kara = from, heisei, gannen.       *)
(* " " is the whitespace token.  None is Python's None / SQL NULL.         *)
(***************************************************************************)
EXTENDS Integers, Sequences, FiniteSets, TLC

None == <<"None">>

\* x or ''
OrEmpty(x) == IF x = None THEN << >> ELSE x

\* str.lower(): the vocabulary has three tokens with an upper-case form
Lower(tok) ==
  CASE tok = "AI" -> "ai"
    [] tok = "Professor" -> "professor"
    [] tok = "JSPS" -> "jsps"
    [] OTHER -> tok

LowerText(s) == [i \in DOMAIN s |-> Lower(s[i])]

\* needle in hay (Python substring test; '' is in every string)
Contains(hay, needle) ==
  \E i \in 1..(Len(hay) - Len(needle) + 1) :
    SubSeq(hay, i, i + Len(needle) - 1) = needle

\* str.strip()
RECURSIVE LStrip(_)
LStrip(s) == IF s # << >> /\ Head(s) = " " THEN LStrip(Tail(s)) ELSE s

RECURSIVE RStrip(_)
RStrip(s) ==
  IF s # << >> /\ s[Len(s)] = " " THEN RStrip(SubSeq(s, 1, Len(s) - 1)) ELSE s

Strip(s) == RStrip(LStrip(s))

\* str.split(): the maximal runs of non-whitespace tokens, in order
RECURSIVE SplitFrom(_, _, _)
SplitFrom(s, cur, acc) ==
  IF s = << >>
  THEN IF cur = << >> THEN acc ELSE Append(acc, cur)
  ELSE IF Head(s) = " "
       THEN SplitFrom(Tail(s), << >>, IF cur = << >> THEN acc ELSE Append(acc, cur))
       ELSE SplitFrom(Tail(s), Append(cur, Head(s)), acc)

Split(s) == SplitFrom(s, << >>, << >>)

\* sep.join(parts)
RECURSIVE Join(_, _)
Join(sep, parts) ==
  IF parts = << >> THEN << >>
  ELSE IF Len(parts) = 1 THEN parts[1]
  ELSE parts[1] \o sep \o Join(sep, Tail(parts))

\* s[:n]
Prefix(s, n) == SubSeq(s, 1, IF n < Len(s) THEN n ELSE Len(s))

\* the first element of seq among those at the indices I (the ones that pass
\* the test of the loop), as a one-element sequence, or the empty sequence
\* (for ... if ...: break)
FirstWhere(seq, I) ==
  IF I = {} THEN << >> ELSE <<seq[CHOOSE i \in I : \A j \in I : i <= j]>>

Least(S) == CHOOSE i \in S : \A j \in S : i <= j

\* marker m occurs in s at index j
OccursAt(s, j, m) ==
  j >= 1 /\ j + Len(m) - 1 <= Len(s) /\ SubSeq(s, j, j + Len(m) - 1) = m

\* the markers ms occur in s in this order, the first at index from or later
\* (the regex tail  .*?m1.*?m2 )
RECURSIVE FollowedBy(_, _, _)
FollowedBy(s, from, ms) ==
  IF ms = << >> THEN TRUE
  ELSE LET P == {j \in from..Len(s) : OccursAt(s, j, Head(ms))}
       IN P # {} /\ FollowedBy(s, Least(P) + Len(Head(ms)), Tail(ms))

RECURSIVE SkipSpaces(_, _)
SkipSpaces(s, j) == IF j <= Len(s) /\ s[j] = " " THEN SkipSpaces(s, j + 1) ELSE j

\* \d{4}: a token that is a four-digit number; int() of it
YearRange == 1950..2035
IsYear(tok) == \E n \in YearRange : ToString(n) = tok
YearVal(tok) == CHOOSE n \in YearRange : ToString(n) = tok

\* \d{2} and \d+ (era years)
IsTwoDigit(tok) == \E n \in 10..99 : ToString(n) = tok
IsNumber(tok) == \E n \in 1..99 : ToString(n) = tok
NumVal(tok) == CHOOSE n \in 1..99 : ToString(n) = tok

\* (\d{4})nen at index i
YearNenAt(s, i) == i + 1 <= Len(s) /\ IsYear(s[i]) /\ s[i + 1] = "nen"

\* ph\.?d\.?
IsPhd(tok) == tok \in {"phd", "ph.d."}

\* datetime.now().year
CurrentYear == 2026

profile_positions ==
  << <<"tokunin", "kenkyuin">>, <<"tokunin", "koshi">>, <<"tokunin", "jokyo">>,
     <<"jokyo">>, <<"jun", "kyoju">>, <<"hakase", "kenkyuin">>, <<"posudoku">>,
     <<"kenkyuin">>, <<"joshu">>, <<"koshi">>, <<"hakase", "koki", "katei">>,
     <<"hakase", "katei">>, <<"posutodokutoraru">>,
     <<"gakushin", "tokubetsu", "kenkyuin">>, <<"jsps", "tokubetsu", "kenkyuin">>,
     <<"tokubetsu", "kenkyuin">>, <<"hakase", "gakusei">>, <<"daigakuinsei">>,
     <<"iin">> >>

young_positions_ja ==
  << <<"jokyo">>, <<"jun", "kyoju">>, <<"hakase", "kenkyuin">>, <<"posudoku">>,
     <<"kenkyuin">>, <<"tokunin", "jokyo">>, <<"tokunin", "jun", "kyoju">>,
     <<"joshu">>, <<"koshi">>, <<"tokunin", "kenkyuin">>,
     <<"hakase", "koki", "katei">>, <<"hakase", "katei">>, <<"posutodokutoraru">>,
     <<"gakushin", "tokubetsu", "kenkyuin">>, <<"jsps", "tokubetsu", "kenkyuin">>,
     <<"tokubetsu", "kenkyuin">>, <<"hakase", "gakusei">>, <<"daigakuinsei">> >>

young_positions_en ==
  << <<"assistant">>, <<"associate", " ", "professor">>, <<"postdoc">>,
     <<"researcher">>, <<"fellow">>, <<"doctoral">>, <<"phd", " ", "student">>,
     <<"graduate", " ", "student">>, <<"research", " ", "associate">>,
     <<"post", "-", "doctoral">>, <<"jsps", " ", "fellow">> >>

senior_positions_ja ==
  << <<"kyoju">>, <<"meiyo", "kyoju">>, <<"kyakuin", "kyoju">>,
     <<"tokunin", "kyoju">>, <<"shuseki", "kenkyuin">>, <<"tokatsu">> >>

senior_positions_en ==
  << <<"professor">>, <<"emeritus">>, <<"director">>, <<"principal">>, <<"chief">> >>

young_keywords ==
  << <<"wakate">>, <<"shinshinkiei">>, <<"early", " ", "career">>,
     <<"hakase", "katei">>, <<"hakase", "shutoku">>, <<"gakui", "shutoku">>,
     <<"career", "shoki">>, <<"kenkyuin", "toshite">>, <<"saiyosare">>,
     <<"chakunin">>, <<"hakase", "go", "shutoku">>, <<"ph.d.", "shutoku">>,
     <<"gakushin_s">>, <<"jsps">>, <<"ikushisho">>,
     <<"wakate", "kenkyusha", "sho">>, <<"shorei", "sho">> >>

exclusion_keywords ==
  << <<"taishoku">>, <<"meiyo">>, <<"moto", "kyoju">>, <<"moto", "shocho">>,
     <<"komon">>, <<"rijicho">>, <<"gakucho">>, <<"socho">> >>

\* re.search of one of current_position_patterns: the captured group(1) as a
\* one-element sequence, or << >> when the pattern does not match.  The
\* capture of (.+) runs to the end of the text; leading whitespace is kept
\* (it affects no containment test).  k = 4 is the "genzai" pattern.
CurrentPositionCapture(s, k) ==
  LET sep == <<"-", "~", "kara">>
      I == IF k <= 3
           THEN {i \in 1..Len(s) :
                   /\ YearNenAt(s, i)
                   /\ LET p == SkipSpaces(s, i + 2)
                      IN p < Len(s) /\ s[p] = sep[k]}
           ELSE {i \in 1..Len(s) : s[i] = "genzai" /\ i < Len(s)}
  IN IF I = {} THEN << >>
     ELSE IF k <= 3
          THEN <<SubSeq(s, SkipSpaces(s, Least(I) + 2) + 1, Len(s))>>
          ELSE <<SubSeq(s, Least(I) + 1, Len(s))>>

\* lines 55-64: the first pattern whose capture names a profile position
ProfilePositionReasons(profile_ja) ==
  LET hit(k) ==
        LET cap == CurrentPositionCapture(profile_ja, k)
        IN IF cap = << >> THEN << >>
           ELSE FirstWhere(profile_positions,
                           {i \in DOMAIN profile_positions :
                              Contains(cap[1], profile_positions[i])})
      K == {k \in 1..4 : hit(k) # << >>}
  IN IF K = {} THEN << >>
     ELSE << <<"genshoku_profile">> \o hit(Least(K))[1] >>

\* lines 92-98
JobJaReasons(job_ja, job_title_ja) ==
  LET is_senior ==
        \E n \in DOMAIN senior_positions_ja :
          \/ Contains(job_ja, senior_positions_ja[n])
          \/ Contains(job_title_ja, senior_positions_ja[n])
      hit == FirstWhere(young_positions_ja,
               {i \in DOMAIN young_positions_ja :
                  /\ \/ Contains(job_ja, young_positions_ja[i])
                     \/ Contains(job_title_ja, young_positions_ja[i])
                  /\ ~is_senior})
  IN IF hit = << >> THEN << >> ELSE << <<"shokui">> \o hit[1] >>

\* lines 100-106
JobEnReasons(job_en, job_title_en) ==
  LET is_senior ==
        \E n \in DOMAIN senior_positions_en :
          \/ Contains(job_en, senior_positions_en[n])
          \/ Contains(job_title_en, senior_positions_en[n])
      hit == FirstWhere(young_positions_en,
               {i \in DOMAIN young_positions_en :
                  /\ \/ Contains(job_en, young_positions_en[i])
                     \/ Contains(job_title_en, young_positions_en[i])
                  /\ ~is_senior
                  /\ ~Contains(job_en, <<"full", " ", "professor">>)})
  IN IF hit = << >> THEN << >> ELSE << <<"shokui_en">> \o hit[1] >>

\* lines 118-133: heisei gan nen umare | heisei \d+ nen umare
HeiseiReasons(profile_ja) ==
  LET s == profile_ja
      gan(i) == OccursAt(s, i, <<"heisei", "gan", "nen", "umare">>)
      num(i) == /\ i + 3 <= Len(s)
                /\ s[i] = "heisei" /\ IsNumber(s[i + 1])
                /\ s[i + 2] = "nen" /\ s[i + 3] = "umare"
      I == {i \in 1..Len(s) : gan(i) \/ num(i)}
  IN IF I = {} THEN << >>
     ELSE LET i == Least(I)
              birth_text == SubSeq(s, i, i + 3)
              birth_year == IF Contains(birth_text, <<"heisei", "gan", "nen">>)
                            THEN 1989
                            ELSE 1988 + NumVal(s[i + 1])
              age == CurrentYear - birth_year
          IN IF age <= 45
             THEN << <<"seinen">> \o birth_text \o <<ToString(age)>> >>
             ELSE << >>

\* lines 135-138
KeywordReasons(profile_ja) ==
  LET hit == FirstWhere(young_keywords,
               {i \in DOMAIN young_keywords : Contains(profile_ja, young_keywords[i])})
  IN IF hit = << >> THEN << >> ELSE << <<"keyword">> \o hit[1] >>

\* re.search of phd_patterns[k]: group(1) as a one-element sequence, or << >>
PhdPatternYear(s, k) ==
  LET tail == << << <<"hakase">>, <<"shutoku">> >>,
                 << >>, << >>, << >>,
                 << <<"gakui">> >>,
                 << <<"hakase", "katei">>, <<"shuryo">> >> >>
      phdAt(from) == {j \in from..Len(s) : IsPhd(s[j])}
      yearFirst == {i \in 1..Len(s) :
                      /\ YearNenAt(s, i)
                      /\ IF k = 2 THEN phdAt(i + 2) # {}
                                  ELSE FollowedBy(s, i + 2, tail[k])}
      H == {i \in 1..Len(s) : s[i] = "hakase"}
      Y3 == IF H = {} THEN {} ELSE {j \in (Least(H) + 1)..Len(s) : YearNenAt(s, j)}
      P == phdAt(1)
      Y4 == IF P = {} THEN {} ELSE {j \in (Least(P) + 1)..Len(s) : IsYear(s[j])}
      M == CASE k = 3 -> Y3 [] k = 4 -> Y4 [] OTHER -> yearFirst
  IN IF M = {} THEN << >> ELSE <<s[Least(M)]>>

\* lines 153-160: the first pattern that matches with a year in range
PhdReasons(profile_ja) ==
  LET ok(k) ==
        LET y == PhdPatternYear(profile_ja, k)
        IN y # << >> /\ CurrentYear - YearVal(y[1]) \in 0..15
      K == {k \in 1..6 : ok(k)}
  IN IF K = {} THEN << >>
     ELSE LET y == PhdPatternYear(profile_ja, Least(K))[1]
          IN << <<"hakase_shutoku", y, ToString(CurrentYear - YearVal(y))>> >>

\* lines 164-169, on a paper title that is a string:  \[(\d{4})\]  or  (\d{4})nen
PaperReasons(paper_title) ==
  LET s == paper_title
      B == {i \in 1..Len(s) : /\ i + 2 <= Len(s) /\ s[i] = "["
                              /\ IsYear(s[i + 1]) /\ s[i + 2] = "]"}
      N == {i \in 1..Len(s) : YearNenAt(s, i)}
      y == IF B # {} THEN <<s[Least(B) + 1]>>
           ELSE IF N # {} THEN <<s[Least(N)]>> ELSE << >>
  IN IF y # << >> /\ CurrentYear - YearVal(y[1]) \in 0..10
     THEN << <<"kenkyu_kaishi", y[1], ToString(CurrentYear - YearVal(y[1]))>> >>
     ELSE << >>

\* the age patterns with the upper bound of the Heisei branch only
AgeReasons_NoLowerBound(profile_ja) ==
  LET s == profile_ja
      A1 == {i \in 1..Len(s) : i + 1 <= Len(s) /\ IsTwoDigit(s[i]) /\ s[i + 1] = "sai"}
      A2 == {i \in 1..Len(s) : YearNenAt(s, i) /\ OccursAt(s, i + 2, <<"umare">>)}
      A3 == {i \in 1..Len(s) : YearNenAt(s, i) /\ FollowedBy(s, i + 2, << <<"tanjo">> >>)}
  IN IF A1 # {}
     THEN LET age == NumVal(s[Least(A1)])
          IN IF age <= 45 THEN << <<"nenrei", ToString(age)>> >> ELSE << >>
     ELSE IF A2 # {} \/ A3 # {}
     THEN LET y == s[Least(IF A2 # {} THEN A2 ELSE A3)]
              age == CurrentYear - YearVal(y)
          IN IF age <= 45 THEN << <<"seinen", y, ToString(age)>> >> ELSE << >>
     ELSE << >>

\* lines 172-190: the first age pattern that matches decides, in range or not
AgeReasons(profile_ja) ==
  LET s == profile_ja
      A1 == {i \in 1..Len(s) : i + 1 <= Len(s) /\ IsTwoDigit(s[i]) /\ s[i + 1] = "sai"}
      A2 == {i \in 1..Len(s) : YearNenAt(s, i) /\ OccursAt(s, i + 2, <<"umare">>)}
      A3 == {i \in 1..Len(s) : YearNenAt(s, i) /\ FollowedBy(s, i + 2, << <<"tanjo">> >>)}
  IN IF A1 # {}
     THEN LET age == NumVal(s[Least(A1)])
          IN IF age \in 25..45 THEN << <<"nenrei", ToString(age)>> >> ELSE << >>
     ELSE IF A2 # {} \/ A3 # {}
     THEN LET y == s[Least(IF A2 # {} THEN A2 ELSE A3)]
              age == CurrentYear - YearVal(y)
          IN IF age \in 25..45 THEN << <<"seinen", y, ToString(age)>> >> ELSE << >>
     ELSE << >>

\* the dated-appointment reason worded like the reason of line 61
YearPositionReasons_NoYear(profile_ja) ==
  LET s == profile_ja
      dated(i) ==
        LET y == ToString(i)
        IN \/ Contains(s, <<y, "nen", "-">>)
           \/ Contains(s, <<"~w", y, "nen">>)
           \/ Contains(s, <<y, "nen", "~">>)
      I == {i \in (CurrentYear - 5)..CurrentYear : dated(i)}
  IN IF I = {} THEN << >>
     ELSE LET hit == FirstWhere(profile_positions,
                            {i \in DOMAIN profile_positions :
                               Contains(s, profile_positions[i])})
          IN IF hit = << >> THEN << >>
             ELSE << <<"genshoku_profile">> \o hit[1] >>

\* lines 193-202: the first of the last six years that the profile dates an
\* appointment from
YearPositionReasons(profile_ja) ==
  LET s == profile_ja
      dated(i) ==
        LET y == ToString(i)
        IN \/ Contains(s, <<y, "nen", "-">>)
           \/ Contains(s, <<"~w", y, "nen">>)
           \/ Contains(s, <<y, "nen", "~">>)
      I == {i \in (CurrentYear - 5)..CurrentYear : dated(i)}
  IN IF I = {} THEN << >>
     ELSE LET hit == FirstWhere(profile_positions,
                            {i \in DOMAIN profile_positions :
                               Contains(s, profile_positions[i])})
          IN IF hit = << >> THEN << >>
             ELSE << <<"genshoku_profile">> \o hit[1] \o <<ToString(Least(I))>> >>

\* the classifier reading the biography heuristics only when neither the job
\* titles nor the current-position capture gave a reason
is_young_researcher_Gated(d) ==
  LET profile_ja == LowerText(OrEmpty(d.profile_ja))
      job_ja == LowerText(OrEmpty(d.main_affiliation_job_ja))
      job_title_ja == LowerText(OrEmpty(d.main_affiliation_job_title_ja))
      job_en == LowerText(OrEmpty(d.main_affiliation_job_en))
      job_title_en == LowerText(OrEmpty(d.main_affiliation_job_title_en))
      structured == ProfilePositionReasons(profile_ja)
                      \o JobJaReasons(job_ja, job_title_ja)
                      \o JobEnReasons(job_en, job_title_en)
      reasons == IF structured # << >> THEN structured
                 ELSE HeiseiReasons(profile_ja)
                        \o KeywordReasons(profile_ja)
                        \o PhdReasons(profile_ja)
                        \o PaperReasons(d.paper_title_ja_first)
                        \o AgeReasons(profile_ja)
                        \o YearPositionReasons(profile_ja)
      excl == FirstWhere(exclusion_keywords,
                {i \in DOMAIN exclusion_keywords :
                   \/ Contains(profile_ja, exclusion_keywords[i])
                   \/ Contains(job_ja, exclusion_keywords[i])
                   \/ Contains(job_title_ja, exclusion_keywords[i])})
  IN IF d.paper_title_ja_first = None
     THEN [raised |-> TRUE, is_young |-> FALSE, reasons |-> << >>]
     ELSE IF excl # << >>
     THEN [raised |-> FALSE, is_young |-> FALSE,
           reasons |-> << <<"jogai">> \o excl[1] >>]
     ELSE [raised |-> FALSE, is_young |-> Len(reasons) > 0, reasons |-> reasons]

\* is_young_researcher(researcher_data): raised is the TypeError of
\* re.search on a paper title that is None (line 164)
is_young_researcher(d) ==
  LET profile_ja == LowerText(OrEmpty(d.profile_ja))
      job_ja == LowerText(OrEmpty(d.main_affiliation_job_ja))
      job_title_ja == LowerText(OrEmpty(d.main_affiliation_job_title_ja))
      job_en == LowerText(OrEmpty(d.main_affiliation_job_en))
      job_title_en == LowerText(OrEmpty(d.main_affiliation_job_title_en))
      reasons == ProfilePositionReasons(profile_ja)
                   \o JobJaReasons(job_ja, job_title_ja)
                   \o JobEnReasons(job_en, job_title_en)
                   \o HeiseiReasons(profile_ja)
                   \o KeywordReasons(profile_ja)
                   \o PhdReasons(profile_ja)
                   \o PaperReasons(d.paper_title_ja_first)
                   \o AgeReasons(profile_ja)
                   \o YearPositionReasons(profile_ja)
      excl == FirstWhere(exclusion_keywords,
                {i \in DOMAIN exclusion_keywords :
                   \/ Contains(profile_ja, exclusion_keywords[i])
                   \/ Contains(job_ja, exclusion_keywords[i])
                   \/ Contains(job_title_ja, exclusion_keywords[i])})
  IN IF d.paper_title_ja_first = None
     THEN [raised |-> TRUE, is_young |-> FALSE, reasons |-> << >>]
     ELSE IF excl # << >>
     THEN [raised |-> FALSE, is_young |-> FALSE,
           reasons |-> << <<"jogai">> \o excl[1] >>]
     ELSE [raised |-> FALSE, is_young |-> Len(reasons) > 0, reasons |-> reasons]

(***************************************************************************)
(* The warehouse table rd_250524: a fixed corpus.  researchmap_url is       *)
(* unique and identifies a row.  name_en and main_affiliation_name_en are   *)
(* carried by the source and read by nothing; they are left out.           *)
(***************************************************************************)
Row(url, name, aff, job, job_title, job_en, job_title_en, kw, fields, profile,
    paper, project, emb) ==
  [researchmap_url |-> url, name_ja |-> name, main_affiliation_name_ja |-> aff,
   main_affiliation_job_ja |-> job, main_affiliation_job_title_ja |-> job_title,
   main_affiliation_job_en |-> job_en, main_affiliation_job_title_en |-> job_title_en,
   research_keywords_ja |-> kw, research_fields_ja |-> fields,
   profile_ja |-> profile, paper_title_ja_first |-> paper,
   project_title_ja_first |-> project, embedding |-> emb]

Corpus ==
  << Row(<<"url9">>, <<"abe">>, <<"U1">>, None, None, None, None,
         <<" ">>, None, None, <<"memo">>, None, << >>),
     Row(<<"url1">>, <<"aoki">>, <<"U1">>, <<"jokyo">>, None, None, None,
         <<"ai", ",", " ", "robotics">>, <<"machine", " ", "learning">>,
         <<"2023", "nen", "-", " ", "tokunin", "jokyo">>,
         <<"[", "2020", "]", "deep">>, <<"ai">>, <<1, 1, 0>>),
     Row(<<"url2">>, <<"baba">>, <<"U2">>, <<"kyoju">>, None, None, None,
         <<"AI">>, None,
         <<"ai", " ", "kyoju", " ", "wakate", " ", "2003", "nen", "umare">>,
         <<"survey">>, None, <<1, 0, 0>>),
     Row(<<"url3">>, <<"chiba">>, <<"U1">>, None, None, <<"Professor">>, None,
         <<"machine", " ", "learning", ",", " ", "ai">>, None,
         <<"meiyo", "kyoju">>, <<"ronbun">>, None, <<1, 1, 0>>),
     Row(<<"url4">>, <<"doi">>, <<"U2">>, None, None, <<"postdoc">>, None,
         <<"ai">>, <<"bio">>, <<"33", "sai">>,
         <<"2015", "nen", "ronbun">>, None, <<1, 0, 1>>),
     Row(<<"url5">>, <<"endo">>, None, None, <<"jun", "kyoju">>, None, None,
         <<"learning">>, None, <<"ai">>, << >>, None, << >>),
     Row(<<"url6">>, <<"fujii">>, <<"U1">>, <<"kenkyuin">>, None, None, None,
         <<"ai">>, <<"ai">>, <<"heisei", "15", "nen", "umare">>, << >>,
         <<"learning">>, <<2, 1, 0>>),
     Row(<<"url7">>, None, <<"U2">>, None, None, None, None,
         <<"bio">>, None, None, <<"cell">>, None, <<0, 0, 1>>),
     Row(<<"url8">>, <<"hara">>, <<"U1">>, <<"jokyo">>, None, None, None,
         <<"bio">>, None, <<"wakate">>, None, None, <<0, 1, 2>>) >>

\* the row fields every retrieval path copies into a result
DataFields ==
  {"researchmap_url", "name_ja", "main_affiliation_name_ja",
   "main_affiliation_job_ja", "main_affiliation_job_title_ja",
   "main_affiliation_job_en", "main_affiliation_job_title_en",
   "research_keywords_ja", "research_fields_ja", "profile_ja",
   "paper_title_ja_first", "project_title_ja_first"}

\* is_young_researcher applied to each row of the table: what every retrieval
\* path computes for a row it is about to return
Classification == [i \in DOMAIN Corpus |-> is_young_researcher(Corpus[i])]

\* the sequence of the elements of the index set I in ascending (key, index) order
RECURSIVE SortedBy(_, _)
SortedBy(I, key) ==
  IF I = {} THEN << >>
  ELSE LET m == CHOOSE i \in I :
                  \A j \in I : key[i] < key[j] \/ (key[i] = key[j] /\ i <= j)
       IN <<m>> \o SortedBy(I \ {m}, key)

(***************************************************************************)
(* Vectors.  Similarities and distances are in hundredths (100 is 1.0).    *)
(***************************************************************************)
\* the number of components of the vectors of the model (the source fixes
\* expected_dimensions = 768 at line 428)
expected_dimensions == 3

RECURSIVE Dot(_, _)
Dot(a, b) == IF a = << >> THEN 0 ELSE a[1] * b[1] + Dot(Tail(a), Tail(b))

Zeros(n) == [i \in 1..n |-> 0]

\* lines 429-434: truncate or right-pad with zeros
NormalizeDimension(v) ==
  IF Len(v) = expected_dimensions THEN v
  ELSE IF Len(v) > expected_dimensions THEN SubSeq(v, 1, expected_dimensions)
  ELSE v \o Zeros(expected_dimensions - Len(v))

\* floor(sqrt(n)) for n up to 100 * 100
ISqrt(n) == CHOOSE k \in 0..100 : k * k <= n /\ (k + 1) * (k + 1) > n

\* np.dot(a, b) / (norm(a) * norm(b)); 0.0 on a zero norm; vectors of
\* different length make np.dot raise, which the except turns into 0.0
calculate_cosine_similarity(vec1, vec2) ==
  IF Len(vec1) # Len(vec2) THEN 0
  ELSE LET n1 == Dot(vec1, vec1)
           n2 == Dot(vec2, vec2)
           d == Dot(vec1, vec2)
       IN IF n1 = 0 \/ n2 = 0 THEN 0
          ELSE IF d >= 0 THEN ISqrt((10000 * d * d) \div (n1 * n2))
          ELSE 0 - ISqrt((10000 * d * d) \div (n1 * n2))

\* the embedding model: one component per topic of the (lower-cased) text
Topics == <<"ai", "learning", "bio", "robotics">>

EmbedText(text, dim) ==
  [i \in 1..dim |->
     IF i <= Len(Topics) /\ Contains(LowerText(text), <<Topics[i]>>) THEN 1 ELSE 0]

(***************************************************************************)
(* The SQL the retrieval paths send, evaluated on the corpus.              *)
(***************************************************************************)
\* text LIKE pattern: "%" stands for any run of the units of the text and "_"
\* for any one unit; every other unit of the pattern stands for itself
RECURSIVE LikeMatch(_, _)
LikeMatch(text, pattern) ==
  IF pattern = << >> THEN text = << >>
  ELSE IF Head(pattern) = "%"
  THEN \E k \in 0..Len(text) :
         LikeMatch(SubSeq(text, k + 1, Len(text)), Tail(pattern))
  ELSE /\ text # << >>
       /\ Head(pattern) = "_" \/ Head(pattern) = Head(text)
       /\ LikeMatch(Tail(text), Tail(pattern))

\* LOWER(field) LIKE LOWER('%kw%'); NULL when the field is NULL.  The keyword
\* is pasted into the pattern with its quotes doubled and nothing else
\* escaped, so a "%" or "_" of the keyword is a wildcard of the pattern.
Like(field, kw) ==
  /\ field # None
  /\ LikeMatch(LowerText(field), <<"%">> \o LowerText(kw) \o <<"%">>)

\* the fallback affiliation filter (university_normalizer_fixed is not part
\* of the repository, so its import raises and the LIKE filter is used)
university_condition(row, university_filter) ==
  \/ university_filter = << >>
  \/ \E n \in DOMAIN university_filter :
       /\ row.main_affiliation_name_ja # None
       /\ Contains(row.main_affiliation_name_ja, university_filter[n])

\* ORDER BY ... name_ja: the collation of the names of the corpus, NULL first
NameOrder == <<"abe", "aoki", "baba", "chiba", "doi", "endo", "fujii", "hara">>
NameRank(name) ==
  IF name = None \/ name = << >> THEN 0
  ELSE CHOOSE n \in DOMAIN NameOrder : NameOrder[n] = name[1]

\* lines 793-798: the weighted matches of one keyword in one row
KeywordScore(row, kw) ==
  (IF Like(row.name_ja, kw) THEN 10 ELSE 0)
  + (IF Like(row.research_keywords_ja, kw) THEN 8 ELSE 0)
  + (IF Like(row.research_fields_ja, kw) THEN 6 ELSE 0)
  + (IF Like(row.paper_title_ja_first, kw) THEN 5 ELSE 0)
  + (IF Like(row.project_title_ja_first, kw) THEN 5 ELSE 0)
  + (IF Like(row.profile_ja, kw) THEN 4 ELSE 0)

RECURSIVE RelevanceScore(_, _)
RelevanceScore(row, keywords) ==
  IF keywords = << >> THEN 0
  ELSE KeywordScore(row, Head(keywords)) + RelevanceScore(row, Tail(keywords))

\* the keyword query cutting its rows to the limit before it orders them
KeywordQueryRows_CutBeforeOrder(keywords, max_results, university_filter) ==
  LET I == {i \in DOMAIN Corpus :
              /\ \E n \in DOMAIN keywords : KeywordScore(Corpus[i], keywords[n]) > 0
              /\ university_condition(Corpus[i], university_filter)}
      J == {i \in I : Cardinality({j \in I : j < i}) < max_results}
      key == [i \in J |-> 0 - 1000 * RelevanceScore(Corpus[i], keywords)
                            + NameRank(Corpus[i].name_ja)]
  IN SortedBy(J, key)

\* lines 825-847: the rows of the keyword query, in its ORDER BY, cut by LIMIT
KeywordQueryRows(keywords, max_results, university_filter) ==
  LET I == {i \in DOMAIN Corpus :
              /\ \E n \in DOMAIN keywords : KeywordScore(Corpus[i], keywords[n]) > 0
              /\ university_condition(Corpus[i], university_filter)}
      key == [i \in I |-> 0 - 1000 * RelevanceScore(Corpus[i], keywords)
                            + NameRank(Corpus[i].name_ja)]
  IN Prefix(SortedBy(I, key), max_results)

\* a result whose classifier reasons are not stored
KeywordResult_NoReasons(i, keywords) ==
  LET row == Corpus[i]
      y == Classification[i]
      score == RelevanceScore(row, keywords)
  IN [f \in DataFields \cup {"relevance_score", "is_young_researcher",
                             "young_researcher_reasons"} |->
        CASE f = "relevance_score" -> IF score # 0 THEN score ELSE 0 - 1
          [] f = "is_young_researcher" -> y.is_young
          [] f = "young_researcher_reasons" -> << >>
          [] OTHER -> row[f]]

\* one element of the list keyword_search returns (lines 852-890)
KeywordResult(i, keywords) ==
  LET row == Corpus[i]
      y == Classification[i]
      score == RelevanceScore(row, keywords)
  IN [f \in DataFields \cup {"relevance_score", "is_young_researcher",
                             "young_researcher_reasons"} |->
        CASE f = "relevance_score" -> IF score # 0 THEN score ELSE 0 - 1  \* None
          [] f = "is_young_researcher" -> y.is_young
          [] f = "young_researcher_reasons" -> y.reasons
          [] OTHER -> row[f]]

\* keyword_search(bq_client, query, max_results, university_filter) when the
\* query job runs: raised is the re-raise of line 907 (an empty WHERE clause,
\* the TypeError of the classifier, or of the name test of line 878 on a
\* NULL name)
keyword_search(query, max_results, university_filter) ==
  LET keywords == Split(query)
      rows == KeywordQueryRows(keywords, max_results, university_filter)
      bad == \E n \in DOMAIN rows :
               \/ Classification[rows[n]].raised
               \/ Corpus[rows[n]].name_ja = None
  IN IF keywords = << >> \/ bad
     THEN [raised |-> TRUE, results |-> << >>]
     ELSE [raised |-> FALSE,
           results |-> [n \in DOMAIN rows |-> KeywordResult(rows[n], keywords)]]

\* the native search asked for five times the limit and at least 50 rows
top_k_param_Padded(max_results) ==
  IF 5 * max_results > 50 THEN 5 * max_results ELSE 50

\* line 479: the value bound to @top_k_param
top_k_param(max_results) == max_results

\* lines 461-474: VECTOR_SEARCH over the rows that have an embedding, the
\* top_k nearest by cosine distance, ORDER BY distance ASC
VectorSearchRows(query_embedding, top_k, university_filter) ==
  LET I == {i \in DOMAIN Corpus :
              /\ Len(Corpus[i].embedding) > 0
              /\ university_condition(Corpus[i], university_filter)}
      key == [i \in I |->
                100 - calculate_cosine_similarity(
                        NormalizeDimension(Corpus[i].embedding), query_embedding)]
  IN Prefix(SortedBy(I, key), top_k)

\* one element of the list the native path returns (lines 497-549)
VectorResult(i, query_embedding) ==
  LET row == Corpus[i]
      y == Classification[i]
  IN [f \in DataFields \cup {"embedding", "distance", "is_young_researcher",
                             "young_researcher_reasons"} |->
        CASE f = "distance" ->
               100 - calculate_cosine_similarity(
                       NormalizeDimension(row.embedding), query_embedding)
          [] f = "is_young_researcher" -> y.is_young
          [] f = "young_researcher_reasons" -> y.reasons
          [] OTHER -> row[f]]

\* lines 476-569 when the query job runs: raised is any exception of the
\* inner try (the classifier's TypeError, the name test of line 541)
vector_search(query_embedding, max_results, university_filter) ==
  LET rows == VectorSearchRows(query_embedding, top_k_param(max_results),
                               university_filter)
      bad == \E n \in DOMAIN rows :
               \/ Classification[rows[n]].raised
               \/ Corpus[rows[n]].name_ja = None
  IN IF bad
     THEN [raised |-> TRUE, results |-> << >>]
     ELSE [raised |-> FALSE,
           results |-> [n \in DOMAIN rows |-> VectorResult(rows[n], query_embedding)]]

\* lines 608-636: the candidate rows of the realtime path
RealtimeQueryRows(query, max_results, university_filter) ==
  LET first_keyword == IF Split(query) # << >> THEN Split(query)[1] ELSE query
      I == {i \in DOMAIN Corpus :
              /\ \/ Corpus[i].research_keywords_ja # None
                 \/ Corpus[i].research_fields_ja # None
                 \/ Corpus[i].profile_ja # None
              /\ \/ Like(Corpus[i].research_keywords_ja, first_keyword)
                 \/ Like(Corpus[i].research_fields_ja, first_keyword)
                 \/ Like(Corpus[i].profile_ja, first_keyword)
              /\ university_condition(Corpus[i], university_filter)}
  IN Prefix(SortedBy(I, [i \in I |-> 0]), max_results * 5)

\* lines 643-649 and 668: the text of a candidate that is embedded
ProfileChars == 200
CandidateText(row) ==
  Strip((IF row.research_keywords_ja \notin {None, << >>}
         THEN row.research_keywords_ja \o <<" ">> ELSE << >>)
        \o (IF row.research_fields_ja \notin {None, << >>}
            THEN row.research_fields_ja \o <<" ">> ELSE << >>)
        \o (IF row.profile_ja \notin {None, << >>}
            THEN Prefix(row.profile_ja, ProfileChars) \o <<" ">> ELSE << >>))

(***************************************************************************)
(* expand_query_with_llm and the text-generation service.                  *)
(***************************************************************************)
\* str.split(','): the pieces between the commas
RECURSIVE SplitCommaFrom(_, _, _)
SplitCommaFrom(s, cur, acc) ==
  IF s = << >> THEN Append(acc, cur)
  ELSE IF Head(s) = ","
       THEN SplitCommaFrom(Tail(s), << >>, Append(acc, cur))
       ELSE SplitCommaFrom(Tail(s), Append(cur, Head(s)), acc)

SplitComma(s) == SplitCommaFrom(s, << >>, << >>)

\* [kw.strip() for kw in expanded_text.split(',') if kw.strip()]
RECURSIVE StripNonEmpty(_)
StripNonEmpty(parts) ==
  IF parts = << >> THEN << >>
  ELSE IF Strip(Head(parts)) = << >> THEN StripNonEmpty(Tail(parts))
  ELSE <<Strip(Head(parts))>> \o StripNonEmpty(Tail(parts))

InSeq(x, seq) == \E n \in DOMAIN seq : seq[n] = x

\* lines 949-951: append each keyword that is not yet in the list
RECURSIVE AppendNew(_, _)
AppendNew(final, kws) ==
  IF kws = << >> THEN final
  ELSE AppendNew(IF InSeq(Head(kws), final) THEN final ELSE Append(final, Head(kws)),
                 Tail(kws))

\* the number of leading keywords joined into expanded_query
ExpandedQueryKeywords == 5

Degenerate(query) ==
  [original_query |-> query, expanded_keywords |-> <<query>>, expanded_query |-> query]

Expanded(query, final_keywords) ==
  [original_query |-> query, expanded_keywords |-> final_keywords,
   expanded_query |-> Join(<<" ">>, Prefix(final_keywords, ExpandedQueryKeywords))]

\* lines 940-958: the first model answered with text
GeminiExpansion(query, text) ==
  LET expanded_keywords == StripNonEmpty(SplitComma(Strip(text)))
  IN Expanded(query,
       AppendNew(IF InSeq(query, expanded_keywords) THEN << >> ELSE <<query>>,
                 expanded_keywords))

\* lines 981-992: the second model answered with text; the comprehension of
\* line 985 is evaluated against the list as it is before extend()
BisonExpansion(query, text) ==
  LET expanded_keywords == StripNonEmpty(SplitComma(Strip(text)))
      final_keywords == IF InSeq(query, expanded_keywords) THEN << >> ELSE <<query>>
  IN Expanded(query,
       final_keywords
         \o SelectSeq(expanded_keywords, LAMBDA kw : ~InSeq(kw, final_keywords)))

\* what a generation call can do: raise, or answer with one of these texts
ExpansionTexts ==
  { << >>,
    <<" ">>,
    <<"learning", ",", " ", "learning", ",", "robotics">>,
    <<"AI", ",", " ", "bio", ",", ",", "AI">> }

ExpansionOutcomes ==
  {[gemini |-> g, bison |-> << >>] : g \in {<<t>> : t \in ExpansionTexts}}
  \cup {[gemini |-> << >>, bison |-> b] :
          b \in {<< >>} \cup {<<t>> : t \in ExpansionTexts}}

\* the expander answering a failure with an empty keyword list
expand_query_with_llm_EmptyOnFailure(query, o) ==
  IF o.gemini # << >>
  THEN IF Strip(o.gemini[1]) # << >> THEN GeminiExpansion(query, o.gemini[1])
       ELSE Expanded(query, << >>)
  ELSE IF o.bison # << >> /\ Strip(o.bison[1]) # << >>
       THEN BisonExpansion(query, o.bison[1])
       ELSE Expanded(query, << >>)

\* expand_query_with_llm(query): o.gemini and o.bison are << >> when the call
\* raised and <<text>> when it answered
expand_query_with_llm(query, o) ==
  IF o.gemini # << >>
  THEN IF Strip(o.gemini[1]) # << >> THEN GeminiExpansion(query, o.gemini[1])
       ELSE Degenerate(query)
  ELSE IF o.bison # << >> /\ Strip(o.bison[1]) # << >>
       THEN BisonExpansion(query, o.bison[1])
       ELSE Degenerate(query)

(***************************************************************************)
(* The client manager of gcp_auth.py.                                      *)
(***************************************************************************)
InitOutcomes == {"no_credentials", "client_fails", "test_query_fails", "vertex_fails", "ok"}

\* GCPClientManager.initialize_clients under one outcome of its external calls
initialize_clients(m, outcome) ==
  IF m.initialized THEN m
  ELSE CASE outcome = "no_credentials" ->
              [m EXCEPT !.credentials = FALSE, !.initialized = FALSE]
         [] outcome = "client_fails" ->
              [m EXCEPT !.credentials = TRUE, !.initialized = FALSE]
         [] outcome = "test_query_fails" ->
              [m EXCEPT !.credentials = TRUE, !.bq_client = TRUE, !.initialized = FALSE]
         [] outcome = "vertex_fails" ->
              [m EXCEPT !.credentials = TRUE, !.bq_client = TRUE, !.initialized = FALSE]
         [] OTHER ->
              [m EXCEPT !.credentials = TRUE, !.bq_client = TRUE,
                        !.ai_platform_initialized = TRUE, !.initialized = TRUE]

\* get_bigquery_client that hands out self.bq_client whether or not the
\* initialization succeeded
get_bigquery_client_ReturnStale(m, outcome) ==
  LET after == initialize_clients(m, outcome)
  IN [manager |-> after, client |-> after.bq_client]

\* GCPClientManager.get_bigquery_client: the manager after the call and
\* whether a client (not None) is returned
get_bigquery_client(m, outcome) ==
  LET after == initialize_clients(m, outcome)
  IN [manager |-> after, client |-> after.initialized /\ after.bq_client]

is_vertex_ai_ready(m) == m.initialized /\ m.ai_platform_initialized

(***************************************************************************)
(* One search request running through perform_real_search.                 *)
(***************************************************************************)
MaxResults == 2

Queries ==
  { <<" ", "AI", " ">>, <<"machine", " ", "learning">>, <<"bio">>, <<"%">>,
    <<"%", " ", "ai">> }

\* the exclude_keywords a request may carry: none, or one keyword
ExcludeLists == {<< >>, << <<"AI">> >>}

Requests ==
  [query : Queries, method : {"keyword", "semantic"}, max_results : 1..MaxResults,
   use_llm_expansion : BOOLEAN, use_llm_summary : BOOLEAN,
   young_researcher_filter : BOOLEAN,
   university_filter : {<< >>, << <<"U1">> >>},
   exclude_keywords : ExcludeLists]

VARIABLES
  manager,              \* gcp_manager: the process-wide GCPClientManager
  request,              \* the SearchRequest object, as perform_real_search leaves it
  orig,                 \* the SearchRequest as the caller built it
  pc,                   \* where the request is
  vertex_ai_available,  \* local of perform_real_search
  use_ai_summary,       \* local of perform_real_search (line 233)
  search_query,         \* local of perform_real_search
  expanded_info,        \* << >> is None, <<info>> the dict
  results,              \* local of perform_real_search
  retrieved,            \* the list retrieval returned (before the filter)
  query_embedding,      \* local of semantic_search_with_embedding
  emb_dim,              \* the dimension of the vectors the embedding model returns
  candidates,           \* local of semantic_search_realtime_fallback: corpus indices
  candidate_embeddings, \* local of semantic_search_realtime_fallback
  model_name,           \* local of add_llm_summaries
  idx,                  \* the loop index of add_llm_summaries (1-based)
  response,             \* << >> until perform_real_search returns <<envelope>>
  log,                  \* the calls made so far, in order
  attempts,             \* how often initialize_clients got past its early return
  bq_client_obj,        \* which bigquery.Client object gcp_manager.bq_client is (0: None)
  calls,                \* the calls made on gcp_manager directly, with what they returned
  projects_storage,     \* ProjectManager.projects_storage: project id -> TempProject
  created,              \* how many project ids create_temp_project has generated
  returned,             \* << >>, or <<the last call on project_manager and its result>>
  peer,                 \* the locals of the other perform_real_search call in progress
  turn,                 \* which of two calls is running (0: there is one call only)
  phase,                \* "single", or "conc" (two calls) then "replay" (one of them alone)
  target,               \* what the call being run again alone did next to the other call
  startup_manager       \* gcp_manager as the startup left it, before any call

vars ==
  <<manager, request, orig, pc, vertex_ai_available, use_ai_summary, search_query,
    expanded_info, results, retrieved, query_embedding, emb_dim, candidates, candidate_embeddings,
    model_name, idx, response, log, attempts, bq_client_obj, calls,
    projects_storage, created, returned, peer, turn, phase, target, startup_manager>>

\* the state of a second call in progress, and of a call run again alone
conc_state == <<peer, turn, phase, target, startup_manager>>

\* the state outside one run of perform_real_search
other_state ==
  <<attempts, bq_client_obj, calls, projects_storage, created, returned, peer, turn,
    phase, target, startup_manager>>

\* the state of one run of perform_real_search
request_state ==
  <<request, orig, pc, vertex_ai_available, use_ai_summary, search_query,
    expanded_info, results, retrieved, query_embedding, emb_dim, candidates,
    candidate_embeddings, model_name, idx, response, log>>

\* gcp_auth.py:161 and project_manager.py:260: the process-wide objects as
\* the module imports leave them, with nothing called on them yet
OtherInit ==
  /\ attempts = 0
  /\ bq_client_obj = 0
  /\ calls = << >>
  /\ projects_storage = << >>
  /\ created = 0
  /\ returned = << >>
  /\ peer = << >>
  /\ turn = 0
  /\ phase = "single"
  /\ target = << >>
  /\ startup_manager = << >>

\* one entry of the log: the call, whether it raised, and (for a generation
\* call of add_llm_summaries) the response text or the text of the exception
Event(op, raised) == [op |-> op, raised |-> raised, detail |-> << >>]

\* the except of perform_real_search without the error text
ErrorEnvelope_NoMessage(message) ==
  [status |-> "error", execution_time |-> "elapsed"]

\* lines 404-410: the except of perform_real_search
ErrorEnvelope(message) ==
  [status |-> "error", error_message |-> message, execution_time |-> "elapsed"]

Init ==
  /\ manager = [credentials |-> FALSE, bq_client |-> FALSE,
                ai_platform_initialized |-> FALSE, initialized |-> FALSE]
  /\ request \in Requests
  /\ orig = request
  /\ pc = "boot"
  /\ vertex_ai_available = FALSE
  /\ use_ai_summary = FALSE
  /\ search_query = << >>
  /\ expanded_info = << >>
  /\ results = << >>
  /\ retrieved = << >>
  /\ query_embedding = << >>
  /\ emb_dim = 0
  /\ candidates = << >>
  /\ candidate_embeddings = << >>
  /\ model_name = ""
  /\ idx = 0
  /\ response = << >>
  /\ log = << >>
  /\ OtherInit

\* initialize_gcp_on_startup with ENABLE_GCP_INITIALIZATION=true
StartupInitialize ==
  /\ pc = "boot"
  /\ \E outcome \in InitOutcomes : manager' = initialize_clients(manager, outcome)
  /\ pc' = "start"
  /\ UNCHANGED other_state
  /\ UNCHANGED <<request, orig, vertex_ai_available, use_ai_summary, search_query,
                 expanded_info,
                 results, retrieved, query_embedding, emb_dim, candidates,
                 candidate_embeddings, model_name, idx, response, log>>

\* initialize_gcp_on_startup with ENABLE_GCP_INITIALIZATION unset
StartupSkip ==
  /\ pc = "boot"
  /\ pc' = "start"
  /\ UNCHANGED other_state
  /\ UNCHANGED <<manager, request, orig, vertex_ai_available, use_ai_summary,
                 search_query,
                 expanded_info, results, retrieved, query_embedding, emb_dim,
                 candidates, candidate_embeddings, model_name, idx, response, log>>

\* capability resolution without lines 263-266 (expansion stays on for a
\* semantic request)
ResolveCapabilities_KeepExpansion(req, available) ==
  LET vertex_ai_required ==
        req.method = "semantic" \/ req.use_llm_expansion \/ req.use_llm_summary
  IN IF vertex_ai_required /\ ~available
     THEN [req EXCEPT !.method = IF @ = "semantic" THEN "keyword" ELSE @,
                      !.use_llm_expansion = FALSE,
                      !.use_llm_summary = FALSE]
     ELSE req

\* capability resolution that also switches the summary flag off for a
\* semantic request
ResolveCapabilities_ClearSummary(req, available) ==
  LET vertex_ai_required ==
        req.method = "semantic" \/ req.use_llm_expansion \/ req.use_llm_summary
      r1 == IF vertex_ai_required /\ ~available
            THEN [req EXCEPT !.method = IF @ = "semantic" THEN "keyword" ELSE @,
                             !.use_llm_expansion = FALSE,
                             !.use_llm_summary = FALSE]
            ELSE req
  IN IF r1.method = "semantic"
     THEN [r1 EXCEPT !.use_llm_expansion = FALSE, !.use_llm_summary = FALSE]
     ELSE r1

\* lines 250-265: the request after capability resolution
ResolveCapabilities(req, available) ==
  LET vertex_ai_required ==
        req.method = "semantic" \/ req.use_llm_expansion \/ req.use_llm_summary
      r1 == IF vertex_ai_required /\ ~available
            THEN [req EXCEPT !.method = IF @ = "semantic" THEN "keyword" ELSE @,
                             !.use_llm_expansion = FALSE,
                             !.use_llm_summary = FALSE]
            ELSE req
  IN IF r1.method = "semantic" THEN [r1 EXCEPT !.use_llm_expansion = FALSE] ELSE r1

\* line 292: which retrieval function is called
RetrievalStart(req, available) ==
  IF req.method = "semantic" /\ available THEN "embed" ELSE "keyword"

\* perform_real_search without the client check of lines 247-248 and with
\* the capability taken as available instead of read at line 252
GetClient_Unchecked ==
  /\ pc = "start"
  /\ \E outcome \in (IF manager.initialized THEN {"ok"} ELSE InitOutcomes) :
       LET got == get_bigquery_client(manager, outcome)
           req == ResolveCapabilities(request, TRUE)
       IN /\ manager' = got.manager
          /\ request' = req
          /\ use_ai_summary' = request.use_llm_summary
          /\ vertex_ai_available' = TRUE
          /\ search_query' = Strip(request.query)
          /\ pc' = IF req.use_llm_expansion THEN "expand"
                   ELSE RetrievalStart(req, TRUE)
          /\ log' = log \o <<Event("get_bigquery_client", ~got.client),
                             Event("is_vertex_ai_ready", FALSE)>>
          /\ UNCHANGED response
  /\ UNCHANGED other_state
  /\ UNCHANGED <<orig, expanded_info, results, retrieved, query_embedding, emb_dim,
                 candidates, candidate_embeddings, model_name, idx>>

\* perform_real_search, lines 224-272: up to the first external call
GetClient ==
  /\ pc = "start"
  /\ \E outcome \in (IF manager.initialized THEN {"ok"} ELSE InitOutcomes) :
       LET got == get_bigquery_client(manager, outcome)
           available == is_vertex_ai_ready(got.manager)
           req == ResolveCapabilities(request, available)
       IN /\ manager' = got.manager
          /\ IF ~got.client
             THEN /\ response' = <<ErrorEnvelope("no_client")>>
                  /\ pc' = "done"
                  /\ log' = Append(log, Event("get_bigquery_client", TRUE))
                  /\ UNCHANGED <<request, vertex_ai_available, use_ai_summary,
                                 search_query>>
             ELSE /\ request' = req
                  /\ use_ai_summary' = request.use_llm_summary
                  /\ vertex_ai_available' = available
                  /\ search_query' = Strip(request.query)
                  /\ pc' = IF req.use_llm_expansion /\ available
                           THEN "expand" ELSE RetrievalStart(req, available)
                  /\ log' = log \o <<Event("get_bigquery_client", FALSE),
                                     Event("is_vertex_ai_ready", FALSE)>>
                  /\ UNCHANGED response
  /\ UNCHANGED other_state
  /\ UNCHANGED <<orig, expanded_info, results, retrieved, query_embedding, emb_dim,
                 candidates, candidate_embeddings, model_name, idx>>

\* lines 272-295: the expander returned
ExpandQuery ==
  /\ pc = "expand"
  /\ \E o \in ExpansionOutcomes :
       \E expansion_result \in {expand_query_with_llm(search_query, o)} :
          /\ expanded_info' = <<expansion_result>>
          /\ search_query' = expansion_result.expanded_query
          /\ log' = Append(log, [op |-> "expand_query_with_llm", raised |-> FALSE,
                                 detail |-> <<o.gemini, o.bison>>])
  /\ pc' = RetrievalStart(request, vertex_ai_available)
  /\ UNCHANGED other_state
  /\ UNCHANGED <<manager, request, orig, vertex_ai_available, use_ai_summary, results,
                 retrieved,
                 query_embedding, emb_dim, candidates, candidate_embeddings,
                 model_name, idx, response>>

\* keyword_search swallowing its own failure and returning an empty list
KeywordSearch_Swallow ==
  /\ pc = "keyword"
  /\ \E query_fails \in BOOLEAN :
       \E r \in {IF query_fails THEN [raised |-> TRUE, results |-> << >>]
                 ELSE keyword_search(search_query, request.max_results,
                                     request.university_filter)} :
          /\ log' = Append(log, Event("keyword_search", r.raised))
          /\ results' = r.results
          /\ pc' = "filter"
  /\ UNCHANGED other_state
  /\ UNCHANGED <<manager, request, orig, vertex_ai_available, use_ai_summary,
                 search_query, expanded_info, retrieved, query_embedding, emb_dim,
                 candidates, candidate_embeddings, model_name, idx, response>>

\* keyword_search, called at line 295 or as the fallback of line 575; when it
\* raises, the except of perform_real_search answers
KeywordSearch ==
  /\ pc = "keyword"
  /\ \E query_fails \in BOOLEAN :
       \E r \in {IF query_fails THEN [raised |-> TRUE, results |-> << >>]
                 ELSE keyword_search(search_query, request.max_results,
                                     request.university_filter)} :
          /\ log' = Append(log, [op |-> "keyword_search", raised |-> r.raised,
                                 detail |-> IF query_fails THEN <<"query_job">>
                                            ELSE << >>])
          /\ IF r.raised
             THEN /\ response' = <<ErrorEnvelope("keyword_search")>>
                  /\ pc' = "done"
                  /\ UNCHANGED results
             ELSE /\ results' = r.results
                  /\ pc' = "filter"
                  /\ UNCHANGED response
  /\ UNCHANGED other_state
  /\ UNCHANGED <<manager, request, orig, vertex_ai_available, use_ai_summary,
                 search_query,
                 expanded_info, retrieved, query_embedding, emb_dim, candidates,
                 candidate_embeddings, model_name, idx>>

\* the dimensions the embedding model may answer with
EmbeddingDims == {expected_dimensions - 1, expected_dimensions, expected_dimensions + 1}

\* semantic_search_with_embedding, lines 417-459: the query embedding
EmbedQuery ==
  /\ pc = "embed"
  /\ \/ /\ log' = Append(log, Event("get_embeddings(query)", TRUE))
        /\ pc' = "keyword"
        /\ UNCHANGED <<query_embedding, emb_dim>>
     \/ \E d \in EmbeddingDims :
          /\ emb_dim' = d
          /\ query_embedding' = NormalizeDimension(EmbedText(search_query, d))
          /\ log' = Append(log, Event("get_embeddings(query)", FALSE))
          /\ pc' = "native"
  /\ UNCHANGED other_state
  /\ UNCHANGED <<manager, request, orig, vertex_ai_available, use_ai_summary,
                 search_query,
                 expanded_info, results, retrieved, candidates,
                 candidate_embeddings, model_name, idx, response>>

\* the native step handing a failure to the outer except (keyword_search)
\* instead of the realtime path
VectorSearch_SkipRealtime ==
  /\ pc = "native"
  /\ \E query_fails \in BOOLEAN :
       \E r \in {IF query_fails THEN [raised |-> TRUE, results |-> << >>]
                 ELSE vector_search(query_embedding, request.max_results,
                                    request.university_filter)} :
          /\ log' = Append(log, Event("vector_search", r.raised))
          /\ IF r.raised
             THEN pc' = "keyword" /\ UNCHANGED results
             ELSE pc' = "filter" /\ results' = r.results
  /\ UNCHANGED other_state
  /\ UNCHANGED <<manager, request, orig, vertex_ai_available, use_ai_summary,
                 search_query,
                 expanded_info, retrieved, query_embedding, emb_dim, candidates,
                 candidate_embeddings, model_name, idx, response>>

\* semantic_search_with_embedding, lines 460-569: the VECTOR_SEARCH query
VectorSearch ==
  /\ pc = "native"
  /\ \E query_fails \in BOOLEAN :
       \E r \in {IF query_fails THEN [raised |-> TRUE, results |-> << >>]
                 ELSE vector_search(query_embedding, request.max_results,
                                    request.university_filter)} :
          /\ log' = Append(log, [op |-> "vector_search", raised |-> r.raised,
                                 detail |-> <<"top_k",
                                              ToString(top_k_param(request.max_results))>>
                                            \o IF query_fails THEN <<"query_job">>
                                               ELSE << >>])
          /\ IF r.raised
             THEN pc' = "realtime" /\ UNCHANGED results
             ELSE pc' = "filter" /\ results' = r.results
  /\ UNCHANGED other_state
  /\ UNCHANGED <<manager, request, orig, vertex_ai_available, use_ai_summary,
                 search_query,
                 expanded_info, retrieved, query_embedding, emb_dim, candidates,
                 candidate_embeddings, model_name, idx, response>>

\* the number of texts of one embedding call
batch_size == 5

\* line 679: the texts that are embedded
CandidateTexts(cands) ==
  SelectSeq([n \in DOMAIN cands |-> CandidateText(Corpus[cands[n]])],
            LAMBDA t : t # << >>)

\* one element of the list the realtime path ranks (lines 706-720)
RealtimeResult(i, query_emb, candidate_embedding) ==
  LET row == Corpus[i]
      similarity == calculate_cosine_similarity(query_emb, candidate_embedding)
      y == Classification[i]
  IN [f \in DataFields \cup {"distance", "similarity", "is_young_researcher",
                             "young_researcher_reasons"} |->
        CASE f = "distance" -> 100 - similarity
          [] f = "similarity" -> similarity
          [] f = "is_young_researcher" -> y.is_young
          [] f = "young_researcher_reasons" -> y.reasons
          [] OTHER -> row[f]]

\* the ranking without the cut of line 726
RealtimeRank_NoCut(cands, cand_embs, query_emb, max_results) ==
  LET n == IF Len(cands) < Len(cand_embs) THEN Len(cands) ELSE Len(cand_embs)
      res == [i \in 1..n |-> RealtimeResult(cands[i], query_emb, cand_embs[i])]
      order == SortedBy(1..n, [i \in 1..n |-> res[i].distance])
  IN IF \E i \in 1..n : Classification[cands[i]].raised
     THEN [raised |-> TRUE, results |-> << >>]
     ELSE [raised |-> FALSE, results |-> [k \in DOMAIN order |-> res[order[k]]]]

\* the ranking without the sort of line 723
RealtimeRank_NoSort(cands, cand_embs, query_emb, max_results) ==
  LET n == IF Len(cands) < Len(cand_embs) THEN Len(cands) ELSE Len(cand_embs)
      res == [i \in 1..n |-> RealtimeResult(cands[i], query_emb, cand_embs[i])]
  IN IF \E i \in 1..n : Classification[cands[i]].raised
     THEN [raised |-> TRUE, results |-> << >>]
     ELSE [raised |-> FALSE, results |-> Prefix(res, max_results)]

\* lines 699-732: pair candidates with embeddings by position, rank by
\* distance (a stable sort), cut to max_results; raised is the classifier's
\* TypeError, re-raised at line 736
RealtimeRank(cands, cand_embs, query_emb, max_results) ==
  LET n == IF Len(cands) < Len(cand_embs) THEN Len(cands) ELSE Len(cand_embs)
      res == [i \in 1..n |-> RealtimeResult(cands[i], query_emb, cand_embs[i])]
      order == SortedBy(1..n, [i \in 1..n |-> res[i].distance])
  IN IF \E i \in 1..n : Classification[cands[i]].raised
     THEN [raised |-> TRUE, results |-> << >>]
     ELSE [raised |-> FALSE,
           results |-> Prefix([k \in DOMAIN order |-> res[order[k]]], max_results)]

\* semantic_search_realtime_fallback, lines 581-687: the candidate query
RealtimeFetch ==
  /\ pc = "realtime"
  /\ \/ /\ log' = log \o <<Event("realtime_query", TRUE),
                            Event("semantic_search_realtime_fallback", TRUE)>>
        /\ pc' = "keyword"
        /\ UNCHANGED <<results, candidates, candidate_embeddings>>
     \/ \E rows \in {RealtimeQueryRows(search_query, request.max_results,
                                        request.university_filter)} :
           /\ candidates' = rows
           /\ candidate_embeddings' = << >>
           /\ IF rows = << >> \/ CandidateTexts(rows) = << >>
              THEN /\ pc' = "filter"
                   /\ results' = << >>
                   /\ log' = log \o <<Event("realtime_query", FALSE),
                                      Event("semantic_search_realtime_fallback", FALSE)>>
              ELSE /\ pc' = "rt_embed"
                   /\ log' = Append(log, Event("realtime_query", FALSE))
                   /\ UNCHANGED results
  /\ UNCHANGED other_state
  /\ UNCHANGED <<manager, request, orig, vertex_ai_available, use_ai_summary,
                 search_query, expanded_info, retrieved, query_embedding, emb_dim,
                 model_name, idx, response>>

\* semantic_search_realtime_fallback, lines 689-736: one batch of the
\* embedding loop and, after the last batch, the ranking
RealtimeEmbedBatch ==
  /\ pc = "rt_embed"
  /\ \E call_fails \in BOOLEAN :
     \E candidate_texts \in {CandidateTexts(candidates)} :
       LET i == Len(candidate_embeddings)
           last == IF i + batch_size < Len(candidate_texts)
                   THEN i + batch_size ELSE Len(candidate_texts)
           batch_texts == SubSeq(candidate_texts, i + 1, last)
       IN /\ candidate_embeddings' =
               candidate_embeddings
                 \o [n \in DOMAIN batch_texts |->
                       IF call_fails THEN Zeros(Len(query_embedding))
                       ELSE EmbedText(batch_texts[n], emb_dim)]
          /\ IF last < Len(candidate_texts)
             THEN /\ log' = Append(log, Event("get_embeddings(batch)", call_fails))
                  /\ UNCHANGED <<pc, results>>
             ELSE \E r \in {RealtimeRank(candidates, candidate_embeddings',
                                         query_embedding, request.max_results)} :
                    /\ log' = log \o <<Event("get_embeddings(batch)", call_fails),
                                       Event("semantic_search_realtime_fallback",
                                             r.raised)>>
                    /\ IF r.raised
                       THEN pc' = "keyword" /\ UNCHANGED results
                       ELSE pc' = "filter" /\ results' = r.results
  /\ UNCHANGED other_state
  /\ UNCHANGED <<manager, request, orig, vertex_ai_available, use_ai_summary,
                 search_query, expanded_info, retrieved, query_embedding, emb_dim,
                 candidates, model_name, idx, response>>

\* the filter block not applied
YoungResearcherFilter_KeepAll(req, res) == res

\* lines 299-311
YoungResearcherFilter(req, res) ==
  IF req.young_researcher_filter /\ res # << >>
  THEN SelectSeq(res, LAMBDA r : r.is_young_researcher)
  ELSE res

\* perform_real_search, lines 297-354: retrieval returned
PostFilter ==
  /\ pc = "filter"
  /\ retrieved' = results
  /\ results' = YoungResearcherFilter(request, results)
  /\ pc' = IF use_ai_summary /\ results' # << >> /\ vertex_ai_available
           THEN "summary_model" ELSE "respond"
  /\ UNCHANGED other_state
  /\ UNCHANGED <<manager, request, orig, vertex_ai_available, use_ai_summary,
                 search_query, expanded_info, query_embedding, emb_dim, candidates,
                 candidate_embeddings, model_name, idx, response, log>>

\* add_llm_summaries, lines 1017-1042: the generation model
SummaryModel ==
  /\ pc = "summary_model"
  /\ \E m \in {"gemini", "bison", "none"} :
       /\ model_name' = m
       /\ IF m = "none"
          THEN pc' = "respond" /\ UNCHANGED idx
          ELSE pc' = "summary" /\ idx' = 1
  /\ log' = Append(log, Event("add_llm_summaries", FALSE))
  /\ UNCHANGED other_state
  /\ UNCHANGED <<manager, request, orig, vertex_ai_available, use_ai_summary,
                 search_query, expanded_info, results, retrieved, query_embedding,
                 emb_dim, candidates, candidate_embeddings, response>>

WithField(r, name, value) ==
  [f \in DOMAIN r \cup {name} |-> IF f = name THEN value ELSE r[f]]

\* what one generation call of add_llm_summaries can do: answer with a text
\* (raised FALSE) or raise an exception with this text (raised TRUE)
GenerationOutcomes ==
  {[raised |-> FALSE, text |-> <<" ", "kanren", " ", "bunseki", " ">>],
   [raised |-> FALSE, text |-> <<" ">>],
   [raised |-> TRUE, text |-> <<"429", " ", "quota">>],
   [raised |-> TRUE, text |-> <<"Resource", " ", "exhausted">>],
   [raised |-> TRUE, text |-> <<"timeout">>]}

\* line 1105: the fixed text an item gets when its call was rate-limited
RateLimitSentinel == <<"API", "seigen", "skip">>

\* lines 1099 and 1108: the text that only quotes the query
QueryFallback(query) == <<"[">> \o query \o <<"]", "kanren", "kenkyu">>

\* lines 1085-1108: the summary an item gets from one outcome of its call
SummaryOf(result, query, outcome) ==
  IF outcome.raised
  THEN IF \/ Contains(outcome.text, <<"429">>)
          \/ Contains(outcome.text, <<"Resource", " ", "exhausted">>)
       THEN RateLimitSentinel
       ELSE QueryFallback(query)
  ELSE IF Strip(outcome.text) # << >> THEN Strip(outcome.text)
       ELSE QueryFallback(query)

\* the loop with the try around it instead of inside it: a call that raises
\* ends the loop
SummaryItem_AbortOnRaise ==
  /\ pc = "summary"
  /\ \E outcome \in GenerationOutcomes :
       /\ results' = IF outcome.raised THEN results
                     ELSE [results EXCEPT ![idx] =
                             WithField(@, "llm_summary",
                                       SummaryOf(@, request.query, outcome))]
       /\ log' = log \o (IF idx > 1 THEN <<Event("sleep", FALSE)>> ELSE << >>)
                     \o <<[op |-> "generate", raised |-> outcome.raised,
                           detail |-> outcome.text]>>
       /\ pc' = IF idx = Len(results) \/ outcome.raised THEN "respond" ELSE "summary"
  /\ idx' = idx + 1
  /\ UNCHANGED other_state
  /\ UNCHANGED <<manager, request, orig, vertex_ai_available, use_ai_summary,
                 search_query, expanded_info, retrieved, query_embedding, emb_dim,
                 candidates, candidate_embeddings, model_name, response>>

\* one pass of the loop that skips the delay after a call that raised
SummaryItem_NoDelayAfterFailure ==
  /\ pc = "summary"
  /\ \E outcome \in GenerationOutcomes :
       /\ results' = [results EXCEPT ![idx] =
                        WithField(@, "llm_summary", SummaryOf(@, request.query, outcome))]
       /\ log' = log \o (IF idx > 1 /\ ~log[Len(log)].raised
                         THEN <<Event("sleep", FALSE)>> ELSE << >>)
                     \o <<[op |-> "generate", raised |-> outcome.raised,
                           detail |-> outcome.text]>>
  /\ idx' = idx + 1
  /\ pc' = IF idx = Len(results) THEN "respond" ELSE "summary"
  /\ UNCHANGED other_state
  /\ UNCHANGED <<manager, request, orig, vertex_ai_available, use_ai_summary,
                 search_query, expanded_info, retrieved, query_embedding, emb_dim,
                 candidates, candidate_embeddings, model_name, response>>

\* add_llm_summaries, lines 1044-1111: one pass of the loop
SummaryItem ==
  /\ pc = "summary"
  /\ \E outcome \in GenerationOutcomes :
       /\ results' = [results EXCEPT ![idx] =
                        WithField(@, "llm_summary", SummaryOf(@, request.query, outcome))]
       /\ log' = log \o (IF idx > 1 THEN <<Event("sleep", FALSE)>> ELSE << >>)
                     \o <<[op |-> "generate", raised |-> outcome.raised,
                           detail |-> outcome.text]>>
  /\ idx' = idx + 1
  /\ pc' = IF idx = Len(results) THEN "respond" ELSE "summary"
  /\ UNCHANGED other_state
  /\ UNCHANGED <<manager, request, orig, vertex_ai_available, use_ai_summary,
                 search_query, expanded_info, retrieved, query_embedding, emb_dim,
                 candidates, candidate_embeddings, model_name, response>>

\* lines 361-402: the success envelope
SuccessEnvelope ==
  [status |-> "success", query |-> request.query, method |-> request.method,
   evaluation_mode |-> "legacy", results |-> results, total |-> Len(results),
   execution_time |-> "elapsed",
   executed_query_info |->
     [method |-> request.method,
      expansion_on |-> /\ request.use_llm_expansion /\ vertex_ai_available
                       /\ request.method # "semantic",
      summary_on |-> use_ai_summary /\ vertex_ai_available],
   expanded_info |-> expanded_info]

Respond ==
  /\ pc = "respond"
  /\ response' = <<SuccessEnvelope>>
  /\ pc' = "done"
  /\ UNCHANGED other_state
  /\ UNCHANGED <<manager, request, orig, vertex_ai_available, use_ai_summary,
                 search_query, expanded_info, results, retrieved, query_embedding,
                 emb_dim, candidates, candidate_embeddings, model_name, idx, log>>

Next ==
  \/ StartupInitialize
  \/ StartupSkip
  \/ GetClient
  \/ ExpandQuery
  \/ KeywordSearch
  \/ EmbedQuery
  \/ VectorSearch
  \/ RealtimeFetch
  \/ RealtimeEmbedBatch
  \/ PostFilter
  \/ SummaryModel
  \/ SummaryItem
  \/ Respond

Spec == Init /\ [][Next]_vars

(***************************************************************************)
(* Calls on the process-wide GCPClientManager, with no search running.     *)
(***************************************************************************)
MaxCalls == 4

\* no request has arrived
NoRequest ==
  [query |-> << >>, method |-> "keyword", max_results |-> 1,
   use_llm_expansion |-> FALSE, use_llm_summary |-> FALSE,
   young_researcher_filter |-> FALSE, university_filter |-> << >>,
   exclude_keywords |-> << >>]

RequestIdle ==
  /\ request = NoRequest
  /\ orig = NoRequest
  /\ pc = "idle"
  /\ vertex_ai_available = FALSE
  /\ use_ai_summary = FALSE
  /\ search_query = << >>
  /\ expanded_info = << >>
  /\ results = << >>
  /\ retrieved = << >>
  /\ query_embedding = << >>
  /\ emb_dim = 0
  /\ candidates = << >>
  /\ candidate_embeddings = << >>
  /\ model_name = ""
  /\ idx = 0
  /\ response = << >>
  /\ log = << >>

ManagerInit ==
  /\ manager = [credentials |-> FALSE, bq_client |-> FALSE,
                ai_platform_initialized |-> FALSE, initialized |-> FALSE]
  /\ RequestIdle
  /\ OtherInit

\* gcp_auth.py:104-107: an attempt binds self.bq_client to a new object once
\* bigquery.Client(...) has returned, whatever happens afterwards
ClientConstructed(outcome) == outcome \in {"test_query_fails", "vertex_fails", "ok"}

\* get_bigquery_client(), gcp_auth.py:138-143 and 177-179, called when the
\* external calls of an initialization attempt would end in this outcome
GetBigQueryClientCall ==
  /\ Len(calls) < MaxCalls
  /\ \E outcome \in InitOutcomes :
       LET attempt == ~manager.initialized
           got == get_bigquery_client(manager, outcome)
           obj == IF attempt /\ ClientConstructed(outcome)
                  THEN attempts + 1 ELSE bq_client_obj
       IN /\ manager' = got.manager
          /\ attempts' = IF attempt THEN attempts + 1 ELSE attempts
          /\ bq_client_obj' = obj
          /\ calls' = Append(calls,
                            [op |-> "get_bigquery_client",
                             attempt |-> IF attempt THEN attempts + 1 ELSE 0,
                             succeeded |-> attempt /\ outcome = "ok",
                             client |-> IF got.client THEN obj ELSE 0,
                             ready |-> FALSE])
  /\ UNCHANGED <<projects_storage, created, returned>>
  /\ UNCHANGED request_state
  /\ UNCHANGED conc_state

\* is_vertex_ai_ready(), gcp_auth.py:145-147 and 181-183
IsVertexAiReadyCall ==
  /\ Len(calls) < MaxCalls
  /\ calls' = Append(calls,
                     [op |-> "is_vertex_ai_ready", attempt |-> 0,
                      succeeded |-> FALSE, client |-> 0,
                      ready |-> is_vertex_ai_ready(manager)])
  /\ UNCHANGED <<manager, attempts, bq_client_obj, projects_storage, created, returned>>
  /\ UNCHANGED request_state
  /\ UNCHANGED conc_state

ManagerNext ==
  \/ GetBigQueryClientCall
  \/ IsVertexAiReadyCall

SpecManager == ManagerInit /\ [][ManagerNext]_vars

(***************************************************************************)
(* ProjectManager (project_manager.py) behind its endpoints in main.py.    *)
(***************************************************************************)
MaxProjects == 2
MaxSelected == 3

\* the path parameter researcher_name and the body field of the same name
Names == {<<"sato">>, <<"ito">>}
Memos == {<<"memo">>}

\* dict.get(key, default)
DictGet(d, key, default) == IF key \in DOMAIN d THEN d[key] ELSE default

\* main.py:706 with project_manager.py:42-48: request.dict() of a
\* ResearcherSelectionRequest, the dict the endpoint passes on
SelectionDict(project_id, name) ==
  [project_id |-> project_id, researcher_name |-> name,
   researcher_affiliation |-> <<"U1">>, researchmap_url |-> None,
   selection_reason |-> None]

\* project_manager.py:70-90: the stored project (the fields the researcher
\* operations read or write)
NewProject == [status |-> "draft", selected_researchers |-> << >>]

\* project_manager.py:108-139
add_researcher_to_project(storage, project_id, researcher) ==
  IF project_id \notin DOMAIN storage
  THEN [storage |-> storage, result |-> FALSE]
  ELSE LET selected == storage[project_id].selected_researchers
       IN IF \E k \in DOMAIN selected :
               selected[k].name = DictGet(researcher, "name", None)
          THEN [storage |-> storage, result |-> FALSE]
          ELSE [storage |->
                  [storage EXCEPT ![project_id].selected_researchers =
                     Append(@, [name |-> DictGet(researcher, "name", << >>),
                                affiliation |-> DictGet(researcher, "affiliation", << >>),
                                memo |-> DictGet(researcher, "memo", << >>)])],
                result |-> TRUE]

\* list.pop(i)
Pop(seq, i) == SubSeq(seq, 1, i - 1) \o SubSeq(seq, i + 1, Len(seq))

\* project_manager.py:141-159
remove_researcher_from_project(storage, project_id, researcher_name) ==
  IF project_id \notin DOMAIN storage
  THEN [storage |-> storage, result |-> FALSE]
  ELSE LET selected == storage[project_id].selected_researchers
           found == {i \in DOMAIN selected : selected[i].name = researcher_name}
       IN IF found = {} THEN [storage |-> storage, result |-> FALSE]
          ELSE [storage |->
                  [storage EXCEPT ![project_id].selected_researchers =
                     Pop(@, Least(found))],
                result |-> TRUE]

\* project_manager.py:161-181
update_researcher_memo(storage, project_id, researcher_name, memo) ==
  IF project_id \notin DOMAIN storage
  THEN [storage |-> storage, result |-> FALSE]
  ELSE LET selected == storage[project_id].selected_researchers
           found == {i \in DOMAIN selected : selected[i].name = researcher_name}
       IN IF found = {} THEN [storage |-> storage, result |-> FALSE]
          ELSE [storage |->
                  [storage EXCEPT
                     ![project_id].selected_researchers[Least(found)].memo = memo],
                result |-> TRUE]

\* project_manager.py:250-257
delete_temp_project(storage, project_id) ==
  IF project_id \in DOMAIN storage
  THEN [storage |-> [i \in DOMAIN storage \ {project_id} |-> storage[i]],
        result |-> TRUE]
  ELSE [storage |-> storage, result |-> FALSE]

\* what the last call was, what it returned and the store it found
LastCall(op, project_id, name, result) ==
  <<[op |-> op, project_id |-> project_id, name |-> name, result |-> result,
     before |-> projects_storage]>>

ProjectsInit ==
  /\ manager = [credentials |-> FALSE, bq_client |-> FALSE,
                ai_platform_initialized |-> FALSE, initialized |-> FALSE]
  /\ RequestIdle
  /\ OtherInit

\* POST /api/temp-projects (main.py:670-678, project_manager.py:70-90): the
\* id is built from the time and a fresh uuid, here the next number
CreateTempProject ==
  /\ created < MaxProjects
  /\ created' = created + 1
  /\ projects_storage' =
       [i \in DOMAIN projects_storage \cup {created + 1} |->
          IF i = created + 1 THEN NewProject ELSE projects_storage[i]]
  /\ returned' = LastCall("create_temp_project", created + 1, None, TRUE)
  /\ UNCHANGED <<manager, attempts, bq_client_obj, calls>>
  /\ UNCHANGED request_state
  /\ UNCHANGED conc_state

\* POST /api/temp-projects/{project_id}/researchers (main.py:702-713)
AddResearcherToProject ==
  /\ \E project_id \in 1..MaxProjects : \E name \in Names :
       /\ project_id \in DOMAIN projects_storage
            => Len(projects_storage[project_id].selected_researchers) < MaxSelected
       /\ \E r \in {add_researcher_to_project(projects_storage, project_id,
                                               SelectionDict(project_id, name))} :
            /\ projects_storage' = r.storage
            /\ returned' = LastCall("add_researcher_to_project", project_id, name,
                                    r.result)
  /\ UNCHANGED <<manager, attempts, bq_client_obj, calls, created>>
  /\ UNCHANGED request_state
  /\ UNCHANGED conc_state

\* DELETE /api/temp-projects/{project_id}/researchers/{researcher_name}
\* (main.py:715-725)
RemoveResearcherFromProject ==
  /\ \E project_id \in 1..MaxProjects : \E name \in Names :
     \E r \in {remove_researcher_from_project(projects_storage, project_id, name)} :
       /\ projects_storage' = r.storage
       /\ returned' = LastCall("remove_researcher_from_project", project_id, name,
                               r.result)
  /\ UNCHANGED <<manager, attempts, bq_client_obj, calls, created>>
  /\ UNCHANGED request_state
  /\ UNCHANGED conc_state

\* PUT /api/temp-projects/{project_id}/researchers/{researcher_name}/memo
\* (main.py:751-761)
UpdateResearcherMemo ==
  /\ \E project_id \in 1..MaxProjects : \E name \in Names : \E memo \in Memos :
     \E r \in {update_researcher_memo(projects_storage, project_id, name, memo)} :
       /\ projects_storage' = r.storage
       /\ returned' = LastCall("update_researcher_memo", project_id, name, r.result)
  /\ UNCHANGED <<manager, attempts, bq_client_obj, calls, created>>
  /\ UNCHANGED request_state
  /\ UNCHANGED conc_state

\* DELETE /api/temp-projects/{project_id} (main.py:763-773)
DeleteTempProject ==
  /\ \E project_id \in 1..MaxProjects :
     \E r \in {delete_temp_project(projects_storage, project_id)} :
       /\ projects_storage' = r.storage
       /\ returned' = LastCall("delete_temp_project", project_id, None, r.result)
  /\ UNCHANGED <<manager, attempts, bq_client_obj, calls, created>>
  /\ UNCHANGED request_state
  /\ UNCHANGED conc_state

ProjectsNext ==
  \/ CreateTempProject
  \/ AddResearcherToProject
  \/ RemoveResearcherFromProject
  \/ UpdateResearcherMemo
  \/ DeleteTempProject

SpecProjects == ProjectsInit /\ [][ProjectsNext]_vars

(***************************************************************************)
(* Two perform_real_search calls in one process.  Each call has its own    *)
(* request object and locals (real_search.py:220-410); gcp_manager is the  *)
(* one object both use (gcp_auth.py:160-161).  The variables of a single   *)
(* call hold the locals of the call that is running, peer those of the     *)
(* other one, and the calls may change places between any two steps.       *)
(* When both have returned, one of them is run again on its own, from the  *)
(* manager the startup left, along the external responses it received.     *)
(***************************************************************************)
ConcRequests ==
  {[query |-> <<" ", "AI", " ">>, method |-> "keyword", max_results |-> 1,
    use_llm_expansion |-> TRUE, use_llm_summary |-> FALSE,
    young_researcher_filter |-> FALSE, university_filter |-> << >>,
    exclude_keywords |-> << >>],
   [query |-> <<"bio">>, method |-> "semantic", max_results |-> 1,
    use_llm_expansion |-> FALSE, use_llm_summary |-> TRUE,
    young_researcher_filter |-> TRUE, university_filter |-> << >>,
    exclude_keywords |-> << >>]}

\* the locals of the running call
Context ==
  [request |-> request,
   orig |-> orig,
   pc |-> pc,
   vertex_ai_available |-> vertex_ai_available,
   use_ai_summary |-> use_ai_summary,
   search_query |-> search_query,
   expanded_info |-> expanded_info,
   results |-> results,
   retrieved |-> retrieved,
   query_embedding |-> query_embedding,
   emb_dim |-> emb_dim,
   candidates |-> candidates,
   candidate_embeddings |-> candidate_embeddings,
   model_name |-> model_name,
   idx |-> idx,
   response |-> response,
   log |-> log]

\* the locals of a call that has just been entered with this request
FreshCall(req) ==
  [request |-> req, orig |-> req, pc |-> "start", vertex_ai_available |-> FALSE,
   use_ai_summary |-> FALSE, search_query |-> << >>, expanded_info |-> << >>,
   results |-> << >>, retrieved |-> << >>, query_embedding |-> << >>, emb_dim |-> 0,
   candidates |-> << >>, candidate_embeddings |-> << >>, model_name |-> "",
   idx |-> 0, response |-> << >>, log |-> << >>]

\* the running call becomes the one with these locals
Load(c) ==
  /\ request' = c.request
  /\ orig' = c.orig
  /\ pc' = c.pc
  /\ vertex_ai_available' = c.vertex_ai_available
  /\ use_ai_summary' = c.use_ai_summary
  /\ search_query' = c.search_query
  /\ expanded_info' = c.expanded_info
  /\ results' = c.results
  /\ retrieved' = c.retrieved
  /\ query_embedding' = c.query_embedding
  /\ emb_dim' = c.emb_dim
  /\ candidates' = c.candidates
  /\ candidate_embeddings' = c.candidate_embeddings
  /\ model_name' = c.model_name
  /\ idx' = c.idx
  /\ response' = c.response
  /\ log' = c.log

\* main.py:150-165: the manager after the startup event, in each outcome
StartupManagers ==
  LET fresh == [credentials |-> FALSE, bq_client |-> FALSE,
                ai_platform_initialized |-> FALSE, initialized |-> FALSE]
  IN {fresh} \cup {initialize_clients(fresh, outcome) : outcome \in InitOutcomes}

ConcInit ==
  /\ manager \in StartupManagers
  /\ startup_manager = manager
  /\ \E first \in ConcRequests :
       /\ request = FreshCall(first).request
       /\ orig = FreshCall(first).orig
       /\ pc = FreshCall(first).pc
       /\ vertex_ai_available = FreshCall(first).vertex_ai_available
       /\ use_ai_summary = FreshCall(first).use_ai_summary
       /\ search_query = FreshCall(first).search_query
       /\ expanded_info = FreshCall(first).expanded_info
       /\ results = FreshCall(first).results
       /\ retrieved = FreshCall(first).retrieved
       /\ query_embedding = FreshCall(first).query_embedding
       /\ emb_dim = FreshCall(first).emb_dim
       /\ candidates = FreshCall(first).candidates
       /\ candidate_embeddings = FreshCall(first).candidate_embeddings
       /\ model_name = FreshCall(first).model_name
       /\ idx = FreshCall(first).idx
       /\ response = FreshCall(first).response
       /\ log = FreshCall(first).log
  /\ \E second \in ConcRequests : peer = FreshCall(second)
  /\ turn = 1
  /\ phase = "conc"
  /\ target = << >>
  /\ attempts = 0
  /\ bq_client_obj = 0
  /\ calls = << >>
  /\ projects_storage = << >>
  /\ created = 0
  /\ returned = << >>

\* where a call can be suspended: before it starts, at its awaits (lines
\* 274, 293, 295, 356 of perform_real_search, 569 and 575 of
\* semantic_search_with_embedding) and after it has returned
AwaitPoints ==
  {"start", "expand", "keyword", "embed", "realtime", "summary_model", "done"}

\* the other call runs on, this one waits (one switch with the results
\* list of the running call left where it is, as if it were one list
\* shared by both calls)
Switch_SharedResults ==
  /\ phase = "conc"
  /\ pc \in AwaitPoints
  /\ peer.pc # "done"
  /\ peer' = Context
  /\ Load([peer EXCEPT !.results = results])
  /\ turn' = 3 - turn
  /\ UNCHANGED <<manager, phase, target, startup_manager, attempts, bq_client_obj,
                 calls, projects_storage, created, returned>>

\* the other call runs on, this one waits
Switch ==
  /\ phase = "conc"
  /\ pc \in AwaitPoints
  /\ peer.pc # "done"
  /\ peer' = Context
  /\ Load(peer)
  /\ turn' = 3 - turn
  /\ UNCHANGED <<manager, phase, target, startup_manager, attempts, bq_client_obj,
                 calls, projects_storage, created, returned>>

\* both calls have returned: one of them is entered again, alone, with the
\* request it was given and the manager the startup left; of the other call
\* only whether it ended without a client is kept
StartReplay ==
  /\ phase = "conc"
  /\ pc = "done" /\ peer.pc = "done"
  /\ \E c \in {<<Context, peer>>, <<peer, Context>>} :
       /\ target' = c[1]
       /\ peer' = [pc |-> "done",
                   no_client |-> c[2].response[1] = ErrorEnvelope("no_client")]
       /\ Load(FreshCall(c[1].orig))
  /\ manager' = startup_manager
  /\ phase' = "replay"
  /\ UNCHANGED <<turn, startup_manager, attempts, bq_client_obj, calls,
                 projects_storage, created, returned>>

\* the call run alone gets the external responses it got next to the other
\* call: its log so far is the beginning of the log it had then, and the
\* embedding dimension and the generation model are the ones it saw then
SameResponses(l, d, m) ==
  /\ Len(l) <= Len(target.log)
  /\ l = Prefix(target.log, Len(l))
  /\ d = 0 \/ d = target.emb_dim
  /\ m = "" \/ m = target.model_name

Follows == phase = "conc" \/ SameResponses(log', emb_dim', model_name')

ConcGetClient == GetClient /\ Follows
ConcExpandQuery == ExpandQuery /\ Follows
ConcKeywordSearch == KeywordSearch /\ Follows
ConcEmbedQuery == EmbedQuery /\ Follows
ConcVectorSearch == VectorSearch /\ Follows
ConcRealtimeFetch == RealtimeFetch /\ Follows
ConcRealtimeEmbedBatch == RealtimeEmbedBatch /\ Follows
ConcPostFilter == PostFilter /\ Follows
ConcSummaryModel == SummaryModel /\ Follows
ConcSummaryItem == SummaryItem /\ Follows
ConcRespond == Respond /\ Follows

ConcNext ==
  \/ ConcGetClient
  \/ ConcExpandQuery
  \/ ConcKeywordSearch
  \/ ConcEmbedQuery
  \/ ConcVectorSearch
  \/ ConcRealtimeFetch
  \/ ConcRealtimeEmbedBatch
  \/ ConcPostFilter
  \/ ConcSummaryModel
  \/ ConcSummaryItem
  \/ ConcRespond
  \/ Switch
  \/ StartReplay

SpecConc == ConcInit /\ [][ConcNext]_vars

(***************************************************************************)
(* The fallback chain and the envelope.                                    *)
(***************************************************************************)
\* the positions of the log that record op, that record op raising, and
\* that record op returning
Calls(op) == {i \in DOMAIN log : log[i].op = op}

Raised(op) == {i \in Calls(op) : log[i].raised}

Returned(op) == {i \in Calls(op) : ~log[i].raised}

\* semantic_search_with_embedding has been entered
InSemantic == Calls("get_embeddings(query)") # {}

\* the steps of the three retrieval paths
PathOps ==
  {"vector_search", "realtime_query", "get_embeddings(batch)",
   "semantic_search_realtime_fallback", "keyword_search"}

\* the result of a path that returned
Completed ==
  Returned("vector_search") \cup Returned("semantic_search_realtime_fallback")
    \cup Returned("keyword_search")

\* C1: inside semantic_search_with_embedding the native VECTOR_SEARCH step is
\* the first path; the realtime path is entered only after the native step
\* raised; keyword_search is called only after the query-embedding call or
\* the realtime path raised; each path is attempted at most once, nothing is
\* attempted after a path returned, and the list handed back is the list of
\* the path that returned.
C1_FallbackOrder ==
  InSemantic =>
    /\ \A i \in Calls("vector_search") :
         \A j \in DOMAIN log :
           log[j].op \in PathOps \ {"vector_search"} => i < j
    /\ \A i \in Calls("realtime_query") :
         \E j \in Raised("vector_search") : j < i
    /\ \A i \in Calls("keyword_search") :
         \E j \in Raised("get_embeddings(query)")
                  \cup Raised("semantic_search_realtime_fallback") : j < i
    /\ \A op \in PathOps \ {"get_embeddings(batch)"} : Cardinality(Calls(op)) <= 1
    /\ \A i \in Completed : \A j \in DOMAIN log : i < j => log[j].op \notin PathOps
    /\ pc = "filter" =>
         /\ Cardinality(Completed) = 1
         /\ Returned("vector_search") # {} =>
              results = vector_search(query_embedding, request.max_results,
                                      request.university_filter).results
         /\ Returned("semantic_search_realtime_fallback") # {} =>
              results = RealtimeRank(candidates, candidate_embeddings,
                                     query_embedding, request.max_results).results
         /\ Returned("keyword_search") # {} =>
              results = keyword_search(search_query, request.max_results,
                                       request.university_filter).results

\* the whole chain ran: native raised, realtime raised, keyword_search returned
C1_Witness ==
  /\ pc = "filter"
  /\ Raised("vector_search") # {}
  /\ Raised("semantic_search_realtime_fallback") # {}
  /\ Returned("keyword_search") # {}
  /\ results # << >>

\* the envelope perform_real_search returned
Envelope == response[1]

\* C2 as stated: a status="error" envelope is returned only when no warehouse
\* client was obtained.
C2_ErrorOnlyWithoutClient ==
  (pc = "done" /\ Envelope.status = "error") => Raised("get_bigquery_client") # {}

\* C2 amended: the envelope has status="error" exactly when no client was
\* obtained or the keyword_search call the request ended in raised; a failure
\* of the embedding call, the native query, the realtime path or a generation
\* call alone ends in status="success".
C2_ErrorIffNoClientOrKeywordRaised ==
  pc = "done" =>
    (Envelope.status = "error"
       <=> (Raised("get_bigquery_client") # {} \/ Raised("keyword_search") # {}))

\* a success envelope after the embedding-side paths and a generation call failed
C2_Witness ==
  /\ pc = "done"
  /\ Envelope.status = "success"
  /\ Raised("vector_search") # {}
  /\ Raised("semantic_search_realtime_fallback") # {}
  /\ Raised("generate") # {}

\* C3: perform_real_search ends by returning one envelope and never by
\* raising: until it returns, the request is at a step that can be taken; when
\* no client was obtained the envelope has status="error", and every error
\* envelope carries error_message and execution_time.
C3_NeverRaises ==
  /\ pc = "done" =>
       /\ Len(response) = 1
       /\ Envelope.status \in {"success", "error"}
       /\ "execution_time" \in DOMAIN Envelope
       /\ Raised("get_bigquery_client") # {} => Envelope.status = "error"
       /\ Envelope.status = "error" => "error_message" \in DOMAIN Envelope
  /\ pc # "done" =>
       /\ response = << >>
       /\ pc \in {"boot", "start", "expand", "keyword", "embed", "native", "realtime",
                  "rt_embed", "filter", "summary_model", "summary", "respond"}
       /\ pc = "summary" => idx \in DOMAIN results
       /\ pc = "rt_embed" =>
            Len(candidate_embeddings) < Len(CandidateTexts(candidates))

\* no client: the error envelope is returned
C3_Witness ==
  /\ pc = "done"
  /\ Raised("get_bigquery_client") # {}
  /\ Envelope.status = "error"
  /\ Envelope.error_message = "no_client"

\* C4 as stated: a request answered while is_vertex_ai_ready() is false gets,
\* when it asked for method "semantic", a status="success" envelope of method
\* "keyword" whose results keyword_search produced; the expander and the
\* summarizer are not run and the envelope reports neither as ON.
C4_CapabilityDowngrade ==
  (pc = "done" /\ ~is_vertex_ai_ready(manager)) =>
    /\ orig.method = "semantic" =>
         /\ Envelope.status = "success"
         /\ Envelope.method = "keyword"
         /\ Returned("keyword_search") # {}
    /\ Calls("expand_query_with_llm") = {}
    /\ Calls("add_llm_summaries") = {}
    /\ Envelope.status = "success" =>
         /\ ~Envelope.executed_query_info.expansion_on
         /\ ~Envelope.executed_query_info.summary_on

\* C5 as stated, for the requests whose keyword_search call returns: after the
\* query-embedding call raised with the capability available, the envelope is
\* not an error envelope, its method is "keyword" and keyword_search produced
\* its results.
C5_EmbeddingFailureReportsKeyword ==
  (/\ pc = "done"
   /\ vertex_ai_available
   /\ Raised("get_embeddings(query)") # {}
   /\ Raised("keyword_search") = {}) =>
    /\ Envelope.status # "error"
    /\ Envelope.method = "keyword"
    /\ Returned("keyword_search") # {}

\* C6: once the client is obtained and the resolved method is "semantic", the
\* expansion flag is off, expand_query_with_llm is never called, the query
\* retrieval uses is the trimmed original query, and expanded_info is null,
\* also in the envelope.
C6_SemanticDisablesExpansion ==
  (/\ pc \notin {"boot", "start"}
   /\ Raised("get_bigquery_client") = {}
   /\ request.method = "semantic") =>
    /\ ~request.use_llm_expansion
    /\ Calls("expand_query_with_llm") = {}
    /\ search_query = Strip(orig.query)
    /\ expanded_info = << >>
    /\ (pc = "done" /\ Envelope.status = "success") => Envelope.expanded_info = << >>

\* a semantic request that asked for expansion and whose query needed trimming
C6_Witness ==
  /\ pc = "done"
  /\ Envelope.status = "success"
  /\ request.method = "semantic"
  /\ orig.use_llm_expansion
  /\ orig.query # Strip(orig.query)
  /\ Envelope.results # << >>

(***************************************************************************)
(* The young-researcher filter, the result limit, ordering and annotation. *)
(***************************************************************************)
\* a result without the summary add_llm_summaries attached
Base(r) == [f \in DOMAIN r \ {"llm_summary"} |-> r[f]]

\* a is an order-preserving sub-list of b
IsSubList(a, b) ==
  \E f \in [DOMAIN a -> DOMAIN b] :
    /\ \A i, j \in DOMAIN a : i < j => f[i] < f[j]
    /\ \A i \in DOMAIN a : a[i] = b[f[i]]

\* retrieval has returned and the filter block has run
AfterFilter ==
  \/ pc \in {"summary_model", "summary", "respond"}
  \/ pc = "done" /\ Envelope.status = "success"

\* C7: with the young-researcher filter requested, every result kept (and
\* returned in the envelope) has is_young_researcher = TRUE, the kept list is
\* an order-preserving sub-list of the retrieved list, and exactly one
\* retrieval returned: none is made to refill the list.
C7_YoungFilter ==
  (AfterFilter /\ request.young_researcher_filter) =>
    /\ \A i \in DOMAIN results : results[i].is_young_researcher = TRUE
    /\ IsSubList([i \in DOMAIN results |-> Base(results[i])], retrieved)
    /\ Len(results) <= Len(retrieved)
    /\ Cardinality(Completed) = 1
    /\ \A op \in PathOps \ {"get_embeddings(batch)"} : Cardinality(Calls(op)) <= 1
    /\ pc = "done" => Envelope.results = results

\* the filter dropped a retrieved result and kept another
C7_Witness ==
  /\ pc = "done"
  /\ Envelope.status = "success"
  /\ request.young_researcher_filter
  /\ Envelope.results # << >>
  /\ Len(Envelope.results) < Len(retrieved)

\* C8: a retrieval path hands back at most max_results results, and the
\* success envelope holds at most max_results results, its total being their
\* number.
C8_AtMostMaxResults ==
  /\ pc = "filter" => Len(results) <= orig.max_results
  /\ (pc = "done" /\ Envelope.status = "success" /\ orig.max_results > 0) =>
       /\ Len(Envelope.results) <= orig.max_results
       /\ Envelope.total = Len(Envelope.results)
       /\ Envelope.total <= orig.max_results

\* the realtime path had more candidates than max_results and returned
\* max_results of them
C8_Witness ==
  /\ pc = "done"
  /\ Envelope.status = "success"
  /\ Returned("semantic_search_realtime_fallback") # {}
  /\ Len(candidates) > orig.max_results
  /\ Envelope.total = orig.max_results

\* the list is in ascending distance and every element carries a distance
AscendingDistance(res) ==
  /\ \A i \in DOMAIN res : "distance" \in DOMAIN res[i]
  /\ \A i \in DOMAIN res :
       i < Len(res) => res[i].distance <= res[i + 1].distance

\* C9 as stated: the list semantic_search_with_embedding returns is in
\* ascending distance, every element carrying a distance.
C9_AlwaysAscendingDistance ==
  (pc = "filter" /\ InSemantic) => AscendingDistance(results)

\* C9 amended: when the native or the realtime path produced the list it is
\* in ascending distance and every element carries a distance; when the
\* keyword fallback produced it no element carries a distance (each carries
\* a relevance_score).
C9_VectorPathsAscending ==
  (pc = "filter" /\ InSemantic) =>
    IF Returned("keyword_search") # {}
    THEN \A i \in DOMAIN results :
           /\ "distance" \notin DOMAIN results[i]
           /\ "relevance_score" \in DOMAIN results[i]
    ELSE AscendingDistance(results)

\* the realtime path returned two results at different distances
C9_Witness ==
  /\ pc = "filter"
  /\ Returned("semantic_search_realtime_fallback") # {}
  /\ Len(results) = 2
  /\ results[1].distance < results[2].distance

\* C10: every element of the list a retrieval path returns carries
\* is_young_researcher and young_researcher_reasons, and they are the two
\* values is_young_researcher gives for that element's own fields.
C10_ClassifierAnnotation ==
  pc = "filter" =>
    \A i \in DOMAIN results :
      LET r == results[i]
          y == is_young_researcher([f \in DataFields |-> r[f]])
      IN /\ {"is_young_researcher", "young_researcher_reasons"} \subseteq DOMAIN r
         /\ ~y.raised
         /\ r.is_young_researcher = y.is_young
         /\ r.young_researcher_reasons = y.reasons

\* the keyword fallback of a semantic request returned a young researcher
\* with the reasons
C10_Witness ==
  /\ pc = "filter"
  /\ InSemantic
  /\ Returned("keyword_search") # {}
  /\ \E i \in DOMAIN results :
       results[i].is_young_researcher /\ results[i].young_researcher_reasons # << >>
  /\ \E i \in DOMAIN results : ~results[i].is_young_researcher

(***************************************************************************)
(* The summary augmenter.                                                  *)
(***************************************************************************)
\* the log entries of the generation calls of add_llm_summaries, in order
GenerateEvents == SelectSeq(log, LAMBDA e : e.op = "generate")

\* the exception text is one of a rate limit
IsRateLimit(text) ==
  Contains(text, <<"429">>) \/ Contains(text, <<"Resource", " ", "exhausted">>)

\* C11: once add_llm_summaries has a generation model, one call is made per
\* result, in order, whatever the earlier calls did; item i gets the rate-limit
\* sentinel when its call raised with "429" or "Resource exhausted" in the
\* text, the query-quoting fallback when it raised otherwise or answered
\* nothing, its own text when it answered; on return every item has a
\* non-empty llm_summary.
C11_SummaryIsolation ==
  /\ pc = "summary" =>
       /\ Len(GenerateEvents) = idx - 1
       /\ idx \in DOMAIN results
  /\ (pc \in {"respond", "done"} /\ model_name \in {"gemini", "bison"}) =>
       /\ Len(GenerateEvents) = Len(results)
       /\ \A i \in DOMAIN results :
            LET e == GenerateEvents[i]
                r == results[i]
            IN /\ "llm_summary" \in DOMAIN r
               /\ r.llm_summary # << >>
               /\ (e.raised /\ IsRateLimit(e.detail)) =>
                    r.llm_summary = RateLimitSentinel
               /\ (e.raised /\ ~IsRateLimit(e.detail)) =>
                    r.llm_summary = QueryFallback(request.query)
               /\ (~e.raised /\ Strip(e.detail) # << >>) =>
                    r.llm_summary = Strip(e.detail)
               /\ (~e.raised /\ Strip(e.detail) = << >>) =>
                    r.llm_summary = QueryFallback(request.query)

\* the first call raised a 429 and the second item has its own summary
C11_Witness ==
  /\ pc = "done"
  /\ Len(results) = 2
  /\ Len(GenerateEvents) = 2
  /\ GenerateEvents[1].raised
  /\ Contains(GenerateEvents[1].detail, <<"429">>)
  /\ results[1].llm_summary = RateLimitSentinel
  /\ ~GenerateEvents[2].raised
  /\ results[2].llm_summary = <<"kanren", " ", "bunseki">>

(***************************************************************************)
(* The query expander.                                                     *)
(***************************************************************************)
\* the log entry of the expander call: detail is <<gemini, bison>>, each << >>
\* when that model's call raised (or was not made) and <<text>> when it answered
ExpandEvents == SelectSeq(log, LAMBDA e : e.op = "expand_query_with_llm")

\* the expander was called and neither model gave a usable text: the first
\* model answered nothing, or it raised and the second raised or answered
\* nothing
ExpansionFailed(e) ==
  LET gemini == e.detail[1]
      bison == e.detail[2]
  IN IF gemini # << >> THEN Strip(gemini[1]) = << >>
     ELSE bison = << >> \/ Strip(bison[1]) = << >>

\* C12: the expander call never raises and always hands back the three
\* fields; when neither model gave a usable text the result is the degenerate
\* one built from the query it was called with q (the trimmed request query):
\* original_query = q, expanded_keywords = [q], expanded_query = q.
C12_ExpansionDegenerateOnFailure ==
  \A n \in DOMAIN ExpandEvents :
    LET e == ExpandEvents[n]
        q == Strip(orig.query)
    IN /\ ~e.raised
       /\ Len(expanded_info) = 1
       /\ DOMAIN expanded_info[1]
            = {"original_query", "expanded_keywords", "expanded_query"}
       /\ expanded_info[1].original_query = q
       /\ ExpansionFailed(e) =>
            /\ expanded_info[1].expanded_keywords = <<q>>
            /\ expanded_info[1].expanded_query = q
            /\ search_query = q

\* both generation models raised
C12_Witness ==
  /\ Len(ExpandEvents) = 1
  /\ ExpandEvents[1].detail = << << >>, << >> >>
  /\ expanded_info[1].expanded_keywords = <<Strip(orig.query)>>
  /\ pc = "done"

\* the keywords the answering model gave, in its order: the stripped non-empty
\* items of its comma-separated text
ModelKeywords(e) ==
  StripNonEmpty(SplitComma(Strip(IF e.detail[1] # << >> THEN e.detail[1][1]
                                 ELSE e.detail[2][1])))

NoDuplicate(seq) == \A i, j \in DOMAIN seq : seq[i] = seq[j] => i = j

\* C13: whenever a model gave a usable text, expanded_keywords has no
\* duplicate, starts with the original query, and its other elements follow
\* the order of the model's comma-separated output.
C13_ExpandedKeywordsDedupQueryFirst ==
  \A n \in DOMAIN ExpandEvents :
    LET e == ExpandEvents[n]
        q == Strip(orig.query)
    IN ~ExpansionFailed(e) =>
         LET kws == expanded_info[1].expanded_keywords
         IN /\ NoDuplicate(kws)
            /\ kws # << >>
            /\ kws[1] = q
            /\ IsSubList(SelectSeq(kws, LAMBDA kw : kw # q), ModelKeywords(e))

(***************************************************************************)
(* The classifier on the records the retrieval paths return.               *)
(***************************************************************************)
Range(seq) == {seq[i] : i \in DOMAIN seq}

\* the free-text fields the classifier reads for position markers, as it
\* reads them: None as the empty text, lower-cased
MarkerFields ==
  {"main_affiliation_job_ja", "main_affiliation_job_title_ja",
   "main_affiliation_job_en", "main_affiliation_job_title_en", "profile_ja"}

MarkerText(r, f) == LowerText(OrEmpty(r[f]))

HasSeniorMarker(text) ==
  \E m \in Range(senior_positions_ja) \cup Range(senior_positions_en) :
    Contains(text, m)

HasEarlyCareerMarker(text) ==
  \E m \in Range(young_positions_ja) \cup Range(young_positions_en)
             \cup Range(profile_positions) \cup Range(young_keywords) :
    Contains(text, m)

IsExclusionReason(reason) == reason # << >> /\ reason[1] = "jogai"

\* C14: a returned record one of whose job-title fields or whose biography
\* holds both a senior marker and an early-career marker is classified
\* (False, [one exclusion reason]), and a record holding a senior marker in
\* any of these fields carries no early-career evidence.
C14_ExclusionPrecedence ==
  pc = "filter" =>
    \A n \in DOMAIN results :
      LET r == results[n]
          reasons == r.young_researcher_reasons
      IN /\ (\E f \in MarkerFields :
               /\ HasSeniorMarker(MarkerText(r, f))
               /\ HasEarlyCareerMarker(MarkerText(r, f)))
              => /\ ~r.is_young_researcher
                 /\ Len(reasons) = 1
                 /\ IsExclusionReason(reasons[1])
         /\ (\E f \in MarkerFields : HasSeniorMarker(MarkerText(r, f)))
              => /\ ~r.is_young_researcher
                 /\ \A k \in DOMAIN reasons : IsExclusionReason(reasons[k])

\* C15: a null free-text field is an empty one: the classifier raises on no
\* row a retrieval path is about to return, so a path whose query job ran
\* completes: keyword_search raises only for a failed query job (or a query
\* without a token), the native path only for a failed query job, and the
\* realtime path only for a failed candidate query.
C15_NullFieldsAsEmpty ==
  \A n \in DOMAIN log :
    log[n].raised =>
      CASE log[n].op = "keyword_search" ->
             log[n].detail = <<"query_job">> \/ Split(search_query) = << >>
        [] log[n].op = "vector_search" -> "query_job" \in Range(log[n].detail)
        [] log[n].op = "semantic_search_realtime_fallback" ->
             n > 1 /\ log[n - 1].op = "realtime_query" /\ log[n - 1].raised
        [] OTHER -> TRUE

\* one of exclusion_keywords stands in the biography or a Japanese job-title
\* field of the record
ExclusionApplies(r) ==
  \E m \in Range(exclusion_keywords) :
    \/ Contains(MarkerText(r, "profile_ja"), m)
    \/ Contains(MarkerText(r, "main_affiliation_job_ja"), m)
    \/ Contains(MarkerText(r, "main_affiliation_job_title_ja"), m)

\* C16: the reasons of a returned record never hold the same string twice,
\* and when an exclusion applies to the record they are exactly one exclusion
\* reason and the record is not young.
C16_ReasonsDistinct ==
  \A n \in DOMAIN results :
    LET r == results[n]
        reasons == r.young_researcher_reasons
    IN /\ NoDuplicate(reasons)
       /\ ExclusionApplies(r) =>
            /\ ~r.is_young_researcher
            /\ Len(reasons) = 1
            /\ IsExclusionReason(reasons[1])

\* one returned record carries the current position both from the dated
\* capture and from the year scan, another is excluded
C16_Witness ==
  \E i, j \in DOMAIN results :
    /\ Len(results[i].young_researcher_reasons) >= 3
    /\ \E a, b \in DOMAIN results[i].young_researcher_reasons :
         /\ a # b
         /\ results[i].young_researcher_reasons[a][1] = "genshoku_profile"
         /\ results[i].young_researcher_reasons[b][1] = "genshoku_profile"
    /\ ExclusionApplies(results[j])
    /\ Len(results[j].young_researcher_reasons) = 1

(***************************************************************************)
(* The lexical ranking.                                                    *)
(***************************************************************************)
\* keyword_search has just returned its list
KeywordReturned ==
  /\ pc = "filter"
  /\ log # << >>
  /\ log[Len(log)].op = "keyword_search"

\* the weight of each of the six scored fields
FieldWeight ==
  [name_ja |-> 10, research_keywords_ja |-> 8, research_fields_ja |-> 6,
   paper_title_ja_first |-> 5, project_title_ja_first |-> 5, profile_ja |-> 4]

\* the lower-cased field holds the lower-cased token; a null field holds none
FieldHasToken(r, f, token) ==
  r[f] # None /\ Contains(LowerText(r[f]), LowerText(token))

RECURSIVE SumOver(_, _)
SumOver(S, w) ==
  IF S = {} THEN 0
  ELSE LET x == CHOOSE y \in S : TRUE IN w[x] + SumOver(S \ {x}, w)

\* the sum over the tokens of the query (each occurrence counted) and the six
\* fields of the weights of the fields that hold the token
WeightedMatches(r, tokens) ==
  LET P == {<<n, f>> \in (DOMAIN tokens) \X (DOMAIN FieldWeight) :
              FieldHasToken(r, f, tokens[n])}
  IN SumOver(P, [p \in P |-> FieldWeight[p[2]]])

\* C17: the relevance_score of every record keyword_search returns is the sum
\* of the field weights (name 10, research keywords 8, research fields 6,
\* first paper title 5, first project title 5, biography 4) over the
\* whitespace-separated tokens of its query and the fields whose lower-cased
\* text contains the lower-cased token, a null field counting 0; and every
\* row of the table with such a match (and an allowed affiliation) is
\* returned unless the list is full.
C17_RelevanceScore ==
  KeywordReturned =>
    LET tokens == Split(search_query)
    IN /\ \A n \in DOMAIN results :
            /\ results[n].relevance_score = WeightedMatches(results[n], tokens)
            /\ results[n].relevance_score > 0
       /\ \A i \in DOMAIN Corpus :
            (/\ WeightedMatches(Corpus[i], tokens) > 0
             /\ university_condition(Corpus[i], request.university_filter))
              => \/ Len(results) = request.max_results
                 \/ \E n \in DOMAIN results :
                      results[n].researchmap_url = Corpus[i].researchmap_url

\* the rows of the table the keyword query selects: a match of one of the
\* tokens in one of the six fields, and an allowed affiliation
KeywordCandidates ==
  {i \in DOMAIN Corpus :
     /\ RelevanceScore(Corpus[i], Split(search_query)) > 0
     /\ university_condition(Corpus[i], request.university_filter)}

\* the candidates that are not in the returned list
OmittedCandidates ==
  {i \in KeywordCandidates :
     \A n \in DOMAIN results : results[n].researchmap_url # Corpus[i].researchmap_url}

\* a comes before b in ORDER BY relevance_score DESC, name_ja
RanksBefore(score_a, name_a, score_b, name_b) ==
  \/ score_a > score_b
  \/ score_a = score_b /\ NameRank(name_a) <= NameRank(name_b)

\* C18: the list keyword_search returns is in descending relevance_score with
\* equal scores in ascending name, and the limit cuts the ordered list: every
\* returned record comes before every omitted candidate in that order.
C18_KeywordOrder ==
  KeywordReturned =>
    /\ \A a, b \in DOMAIN results :
         a < b => RanksBefore(results[a].relevance_score, results[a].name_ja,
                              results[b].relevance_score, results[b].name_ja)
    /\ \A n \in DOMAIN results : \A i \in OmittedCandidates :
         RanksBefore(results[n].relevance_score, results[n].name_ja,
                     RelevanceScore(Corpus[i], Split(search_query)),
                     Corpus[i].name_ja)
    /\ OmittedCandidates # {} => Len(results) = request.max_results

\* two returned records tie on the score and stand in name order, and a
\* candidate with a lower score is cut
C18_Witness ==
  /\ KeywordReturned
  /\ Len(results) = 2
  /\ results[1].relevance_score = results[2].relevance_score
  /\ NameRank(results[1].name_ja) < NameRank(results[2].name_ja)
  /\ OmittedCandidates # {}

(***************************************************************************)
(* The excluded keywords of the request.                                   *)
(***************************************************************************)
\* the record holds the keyword, case ignored, in its research keywords, its
\* research fields or its biography
HoldsExcluded(r, kw) ==
  \E f \in {"research_keywords_ja", "research_fields_ja", "profile_ja"} :
    r[f] # None /\ Contains(LowerText(r[f]), LowerText(kw))

\* C19: no record of a successful answer holds an excluded keyword of the
\* request in its research keywords, research fields or biography, whichever
\* retrieval path produced the list.
C19_ExcludedKeywordsAbsent ==
  (pc = "done" /\ Envelope.status = "success") =>
    \A n \in DOMAIN Envelope.results :
      \A k \in DOMAIN orig.exclude_keywords :
        ~HoldsExcluded(Envelope.results[n], orig.exclude_keywords[k])

(***************************************************************************)
(* The native nearest-neighbour search.                                    *)
(***************************************************************************)
\* the log entries of the native search; detail is <<"top_k", K>> followed by
\* "query_job" when the query job failed
VectorEvents == SelectSeq(log, LAMBDA e : e.op = "vector_search")

\* the native search has just returned its list
VectorReturned ==
  /\ pc = "filter"
  /\ log # << >>
  /\ log[Len(log)].op = "vector_search"

\* the rows the native search ranks: an embedding and an allowed affiliation
VectorCandidates ==
  {i \in DOMAIN Corpus :
     /\ Len(Corpus[i].embedding) > 0
     /\ university_condition(Corpus[i], request.university_filter)}

\* C20 as stated: the native search is asked for K = max(50, limit * 5) rows,
\* limit being the request's max_results, and its list is cut to limit.
C20_TopKPadded ==
  /\ \A n \in DOMAIN VectorEvents :
       VectorEvents[n].detail[2]
         = ToString(IF 5 * request.max_results > 50 THEN 5 * request.max_results
                    ELSE 50)
  /\ VectorReturned => Len(results) <= request.max_results

\* C20, amended: the native search is asked for K = limit rows, limit being
\* the request's max_results, and its list is returned as it is: the limit
\* nearest candidates, or all of them when there are fewer.
C20_TopKIsLimit ==
  /\ \A n \in DOMAIN VectorEvents :
       VectorEvents[n].detail[2] = ToString(request.max_results)
  /\ VectorReturned =>
       /\ Len(results) <= request.max_results
       /\ Len(results) = request.max_results
            \/ Len(results) = Cardinality(VectorCandidates)
       /\ \A i \in VectorCandidates :
            \/ \E n \in DOMAIN results :
                 results[n].researchmap_url = Corpus[i].researchmap_url
            \/ \A n \in DOMAIN results :
                 results[n].distance
                   <= 100 - calculate_cosine_similarity(
                              NormalizeDimension(Corpus[i].embedding), query_embedding)

\* the native search returned limit = 2 records out of more candidates
C20_Witness ==
  /\ VectorReturned
  /\ request.max_results = 2
  /\ Len(results) = 2
  /\ Cardinality(VectorCandidates) > 2

(***************************************************************************)
(* The realtime brute-force path.                                          *)
(***************************************************************************)
\* the log entries of the embedding calls of the realtime path, in order
BatchEvents == SelectSeq(log, LAMBDA e : e.op = "get_embeddings(batch)")

\* the realtime path has ended (returned or raised) after embedding
RealtimeEnded ==
  /\ BatchEvents # << >>
  /\ \E n \in DOMAIN log : log[n].op = "semantic_search_realtime_fallback"

\* the realtime path has just returned its ranked list
RealtimeReturned ==
  /\ pc = "filter"
  /\ BatchEvents # << >>
  /\ log[Len(log)].op = "semantic_search_realtime_fallback"
  /\ ~log[Len(log)].raised

\* the number of calls that embed n texts, five at a time
BatchCount(n) == (n + 4) \div 5

\* the 1-based position, among the embedded texts, of the text of the j-th
\* candidate (the candidate has a text)
TextIndex(j) ==
  Cardinality({m \in 1..j : CandidateText(Corpus[candidates[m]]) # << >>})

\* the j-th candidate has a text and the call that embedded it raised
InFailedBatch(j) ==
  /\ CandidateText(Corpus[candidates[j]]) # << >>
  /\ LET k == BatchCount(TextIndex(j))
     IN k \in DOMAIN BatchEvents /\ BatchEvents[k].raised

\* C21: the candidate texts are embedded by one call per five texts, in
\* order; a call that raises leaves a zero vector for each text of its batch
\* (similarity 0, distance 1 for that candidate), the later batches are still
\* embedded, and the realtime path returns its list instead of raising.
C21_BatchFailureDegrades ==
  /\ Len(BatchEvents) = BatchCount(Len(candidate_embeddings))
  /\ \A t \in DOMAIN candidate_embeddings :
       BatchEvents[BatchCount(t)].raised
         => candidate_embeddings[t] = Zeros(Len(query_embedding))
  /\ RealtimeEnded =>
       /\ Len(candidate_embeddings) = Len(CandidateTexts(candidates))
       /\ (\E k \in DOMAIN BatchEvents : BatchEvents[k].raised)
            => \A n \in DOMAIN log :
                 log[n].op = "semantic_search_realtime_fallback" => ~log[n].raised
  /\ RealtimeReturned =>
       \A n \in DOMAIN results : \A j \in DOMAIN candidates :
         (/\ Corpus[candidates[j]].researchmap_url = results[n].researchmap_url
          /\ InFailedBatch(j))
           => results[n].similarity = 0 /\ results[n].distance = 100

(***************************************************************************)
(* The stages of the classifier.                                           *)
(***************************************************************************)
\* the kind of a reason: its first word
ReasonKinds(reasons) == {reasons[k][1] : k \in DOMAIN reasons}

JobTitleKinds == {"shokui", "shokui_en"}
CurrentPositionKinds == {"genshoku_profile"}
\* doctorate year, first-paper year, age or birth year, early-career keyword
BiographyKinds == {"hakase_shutoku", "kenkyu_kaishi", "nenrei", "seinen", "keyword"}

\* C23 as stated: the biography heuristics give reasons only when neither the
\* job titles nor the current-position extraction gave one, and with
\* job-title evidence the reasons are that evidence alone.
C23_BiographyOnlyWithoutStructured ==
  \A n \in DOMAIN results :
    LET kinds == ReasonKinds(results[n].young_researcher_reasons)
    IN /\ kinds \cap BiographyKinds # {}
            => kinds \cap (JobTitleKinds \cup CurrentPositionKinds) = {}
       /\ kinds \cap JobTitleKinds # {} => kinds \subseteq JobTitleKinds

\* the reasons each biography heuristic gives for the record's own fields
BiographyReasonsOf(r) ==
  LET profile_ja == MarkerText(r, "profile_ja")
  IN Range(HeiseiReasons(profile_ja)) \cup Range(KeywordReasons(profile_ja))
       \cup Range(PhdReasons(profile_ja)) \cup Range(AgeReasons(profile_ja))
       \cup Range(PaperReasons(r.paper_title_ja_first))

\* the job-title reasons of the record's own fields
JobTitleReasonsOf(r) ==
  Range(JobJaReasons(MarkerText(r, "main_affiliation_job_ja"),
                     MarkerText(r, "main_affiliation_job_title_ja")))
    \cup Range(JobEnReasons(MarkerText(r, "main_affiliation_job_en"),
                            MarkerText(r, "main_affiliation_job_title_en")))

\* C23, amended: the biography heuristics give their reasons whether or not
\* the job titles or the current-position extraction gave one; unless an
\* exclusion applies, the reasons of a returned record hold its job-title
\* evidence together with every biography reason its fields give.
C23_BiographyCumulative ==
  \A n \in DOMAIN results :
    LET r == results[n]
    IN ~ExclusionApplies(r) =>
         /\ BiographyReasonsOf(r) \subseteq Range(r.young_researcher_reasons)
         /\ JobTitleReasonsOf(r) \subseteq Range(r.young_researcher_reasons)

\* a returned record carries a job-title reason, a current-position reason
\* and the first-paper year
C23_Witness ==
  \E n \in DOMAIN results :
    /\ ~ExclusionApplies(results[n])
    /\ {"shokui", "genshoku_profile", "kenkyu_kaishi"}
         \subseteq ReasonKinds(results[n].young_researcher_reasons)

(***************************************************************************)
(* Age and birth year.                                                     *)
(***************************************************************************)
\* the number a reason states, written in decimal
StatedNumber(tok) == CHOOSE n \in (0 - 150)..150 : ToString(n) = tok

\* the reasons of a record that rest on a plain age, a Western birth year or
\* a Heisei birth year, each with the age it states
PlainAgeReasons(reasons) ==
  {k \in DOMAIN reasons : reasons[k][1] = "nenrei"}
WesternBirthReasons(reasons) ==
  {k \in DOMAIN reasons : reasons[k][1] = "seinen" /\ Len(reasons[k]) = 3}
HeiseiBirthReasons(reasons) ==
  {k \in DOMAIN reasons : reasons[k][1] = "seinen" /\ Len(reasons[k]) = 6}

\* the age a birth-year reason implies is the current year minus the year
ImpliedAgeStated(reason) ==
  IF Len(reason) = 3
  THEN StatedNumber(reason[3]) = CurrentYear - YearVal(reason[2])
  ELSE StatedNumber(reason[6])
         = CurrentYear - (IF reason[3] = "gan" THEN 1989
                          ELSE 1988 + NumVal(reason[3]))

\* C24 as stated: an age or birth-year reason of a returned record, whichever
\* of the three kinds, rests on an age between 25 and 45 inclusive.
C24_AgeBetween25And45 ==
  \A n \in DOMAIN results :
    LET reasons == results[n].young_researcher_reasons
    IN /\ \A k \in PlainAgeReasons(reasons) :
            StatedNumber(reasons[k][2]) \in 25..45
       /\ \A k \in WesternBirthReasons(reasons) \cup HeiseiBirthReasons(reasons) :
            /\ ImpliedAgeStated(reasons[k])
            /\ StatedNumber(reasons[k][Len(reasons[k])]) \in 25..45

\* C24, amended: a plain age or a Western birth year is evidence only for an
\* age between 25 and 45 inclusive; a Heisei birth year is evidence only for
\* an age of at most 45, with no lower bound.
C24_AgeWindows ==
  \A n \in DOMAIN results :
    LET reasons == results[n].young_researcher_reasons
    IN /\ \A k \in PlainAgeReasons(reasons) :
            StatedNumber(reasons[k][2]) \in 25..45
       /\ \A k \in WesternBirthReasons(reasons) :
            /\ ImpliedAgeStated(reasons[k])
            /\ StatedNumber(reasons[k][3]) \in 25..45
       /\ \A k \in HeiseiBirthReasons(reasons) :
            /\ ImpliedAgeStated(reasons[k])
            /\ StatedNumber(reasons[k][6]) <= 45

\* returned together: a Heisei birth year counted as evidence and a
\* biography stating the Western birth year 2003, not counted
C24_Witness ==
  \E a, b \in DOMAIN results :
    /\ HeiseiBirthReasons(results[a].young_researcher_reasons) # {}
    /\ Contains(results[b].profile_ja, <<"2003", "nen", "umare">>)
    /\ WesternBirthReasons(results[b].young_researcher_reasons) = {}

(***************************************************************************)
(* The order and pacing of the generation calls.                           *)
(***************************************************************************)
GenerateIndexes == {n \in DOMAIN log : log[n].op = "generate"}
SleepEvents == {n \in DOMAIN log : log[n].op = "sleep"}

\* C25: the generation calls of add_llm_summaries happen one after another in
\* the order of the result list (after k calls exactly the first k results
\* carry a summary), the first call follows the choice of the model directly,
\* and every later call, also the one after a call that raised, directly
\* follows a delay that itself follows the previous call.
C25_SequentialPacedCalls ==
  /\ \A n \in GenerateIndexes :
       IF \A m \in GenerateIndexes : m >= n
       THEN n > 1 /\ log[n - 1].op = "add_llm_summaries"
       ELSE n > 2 /\ log[n - 1].op = "sleep" /\ log[n - 2].op = "generate"
  /\ \A n \in SleepEvents : n < Len(log) /\ log[n + 1].op = "generate"
  /\ \A k \in DOMAIN results :
       "llm_summary" \in DOMAIN results[k] <=> k <= Len(GenerateEvents)

\* a second call made after the first call raised
C25_Witness ==
  \E n \in GenerateIndexes :
    /\ n > 2
    /\ log[n - 2].op = "generate" /\ log[n - 2].raised
    /\ log[n - 1].op = "sleep"
    /\ "llm_summary" \in DOMAIN results[2]

(***************************************************************************)
(* What perform_real_search writes to the request object.                  *)
(***************************************************************************)
\* the fields of the request that no line of perform_real_search assigns
FrameFields ==
  {"query", "max_results", "young_researcher_filter", "university_filter",
   "exclude_keywords"}

\* C26 as stated: the request keeps every field but method, and method
\* changes only from semantic to keyword and only when the capability is
\* unavailable; the expansion and summary flags stay as the caller set them.
C26_OnlyMethodChanges ==
  /\ \A f \in FrameFields \cup {"use_llm_expansion", "use_llm_summary"} :
       request[f] = orig[f]
  /\ request.method # orig.method
       => /\ orig.method = "semantic" /\ request.method = "keyword"
          /\ ~vertex_ai_available

\* C26, amended: the request keeps query, max_results and the filters; the
\* expansion flag changes only to false and only for a semantic request or
\* an unavailable capability, and is false after capability resolution of
\* every semantic request; the summary flag and method change only when the
\* capability is unavailable (to false, and from semantic to keyword).
C26_RequestFrame ==
  /\ \A f \in FrameFields : request[f] = orig[f]
  /\ request.use_llm_expansion # orig.use_llm_expansion
       => /\ ~request.use_llm_expansion
          /\ orig.method = "semantic" \/ ~vertex_ai_available
  /\ (orig.method = "semantic" /\ \E n \in DOMAIN log : log[n].op = "is_vertex_ai_ready")
       => ~request.use_llm_expansion
  /\ request.use_llm_summary # orig.use_llm_summary
       => ~request.use_llm_summary /\ ~vertex_ai_available
  /\ request.method # orig.method
       => /\ orig.method = "semantic" /\ request.method = "keyword"
          /\ ~vertex_ai_available

\* a semantic request that asked for expansion and summaries has returned:
\* its expansion flag is off, its summary flag and method are as requested
C26_Witness ==
  /\ pc = "done"
  /\ response # << >> /\ response[1].status = "success"
  /\ orig.method = "semantic" /\ orig.use_llm_expansion /\ orig.use_llm_summary
  /\ ~request.use_llm_expansion
  /\ request.use_llm_summary /\ request.method = "semantic"

(***************************************************************************)
(* The pairing of candidates and embeddings in the realtime path.          *)
(***************************************************************************)
\* the vector the embedding loop produced for the text of the j-th candidate
\* itself: the embedding of that text, or zeros when its batch call raised
OwnEmbedding(j) ==
  IF InFailedBatch(j) THEN Zeros(Len(query_embedding))
  ELSE EmbedText(CandidateText(Corpus[candidates[j]]), emb_dim)

\* C27: every result the realtime path returns belongs to a candidate with a
\* text, and its distance is 1 minus the cosine similarity of the query
\* embedding and the vector produced for that candidate's own text; a
\* candidate with an empty text does not shift the pairing of the others.
C27_OwnEmbeddingDistance ==
  RealtimeReturned =>
    \A n \in DOMAIN results : \A j \in DOMAIN candidates :
      Corpus[candidates[j]].researchmap_url = results[n].researchmap_url
        => /\ CandidateText(Corpus[candidates[j]]) # << >>
           /\ results[n].distance
                = 100 - calculate_cosine_similarity(query_embedding, OwnEmbedding(j))

(***************************************************************************)
(* No Vertex AI call without the capability.                               *)
(***************************************************************************)
\* the log entries of expand_query_with_llm, semantic_search_with_embedding
\* (with the realtime path it falls back to) and add_llm_summaries
VertexOps ==
  {"expand_query_with_llm", "get_embeddings(query)", "vector_search",
   "realtime_query", "get_embeddings(batch)", "semantic_search_realtime_fallback",
   "add_llm_summaries", "generate", "sleep"}

SuccessfulCalls == {n \in DOMAIN calls : calls[n].succeeded}

\* the n-th call comes after a successful attempt
AfterSuccess(n) == \E m \in SuccessfulCalls : m < n

\* C29: in any sequence of calls, a get_bigquery_client call before the
\* first successful attempt makes a new attempt and returns no client when
\* the attempt fails; the successful attempt returns a client; after it no
\* call makes an attempt and every call returns that same client; and
\* is_vertex_ai_ready() is true exactly after a successful attempt.
C29_LazyInitializeOnce ==
  \A n \in DOMAIN calls :
    IF calls[n].op = "get_bigquery_client"
    THEN IF AfterSuccess(n)
         THEN /\ calls[n].attempt = 0
              /\ \A m \in SuccessfulCalls : m < n => calls[n].client = calls[m].client
         ELSE /\ calls[n].attempt
                  = 1 + Cardinality({m \in 1..(n - 1) :
                                       calls[m].op = "get_bigquery_client"})
              /\ IF calls[n].succeeded THEN calls[n].client # 0
                 ELSE calls[n].client = 0
    ELSE calls[n].ready <=> AfterSuccess(n)

\* two failed attempts (the second after a client object was constructed),
\* then a successful one, then a call that returns the same client
C29_Witness ==
  /\ Len(calls) = 4
  /\ \A n \in 1..4 : calls[n].op = "get_bigquery_client"
  /\ calls[1].client = 0 /\ calls[2].client = 0
  /\ bq_client_obj = 3 /\ attempts = 3
  /\ calls[3].succeeded /\ calls[4].client = calls[3].client
  /\ is_vertex_ai_ready(manager)

(***************************************************************************)
(* The researchers selected for a project.                                 *)
(***************************************************************************)
\* the names of the entries of a project, in order
SelectedNames(project_id) ==
  [k \in DOMAIN projects_storage[project_id].selected_researchers |->
     projects_storage[project_id].selected_researchers[k].name]

\* C30: whatever calls were made, no project holds two selected researchers
\* with the same name; and a call of add_researcher_to_project for a project
\* that does not exist, or with a name an entry of the project already
\* carries, returns False and leaves the store as it found it.
C30_SelectedNamesUnique ==
  /\ \A project_id \in DOMAIN projects_storage :
       \A j, k \in DOMAIN SelectedNames(project_id) :
         SelectedNames(project_id)[j] = SelectedNames(project_id)[k] => j = k
  /\ \A n \in DOMAIN returned :
       (/\ returned[n].op = "add_researcher_to_project"
        /\ \/ returned[n].project_id \notin DOMAIN returned[n].before
           \/ \E k \in DOMAIN returned[n].before[returned[n].project_id]
                               .selected_researchers :
                returned[n].before[returned[n].project_id]
                  .selected_researchers[k].name = returned[n].name)
         => ~returned[n].result /\ projects_storage = returned[n].before

(***************************************************************************)
(* Two concurrent calls.                                                   *)
(***************************************************************************)
\* the running call has returned the same as it did next to the other call
ReplayAgrees ==
  (phase = "replay" /\ pc = "done")
    => /\ log = target.log
       /\ response = target.response

\* C22: while two perform_real_search calls run interleaved in any way, a
\* step of one call leaves the request, the locals, the results and the
\* envelope of the other call as they are (the only thing both write is the
\* client manager); and a call that is run again alone, from the manager
\* the startup left and against the external responses it got next to the
\* other call, ends with the same log and returns the same envelope.
C22_ConcurrentEqualsAlone ==
  /\ [][(phase = "conc" /\ phase' = "conc" /\ turn' = turn) => peer' = peer]_vars
  /\ []ReplayAgrees

\* a call has been run again alone and has returned a success envelope; next
\* to the other call it had found a manager that the other call's failed
\* initialization attempt had written to
C22_Witness ==
  /\ phase = "replay" /\ pc = "done"
  /\ response[1].status = "success"
  /\ target.orig = orig /\ ~startup_manager.initialized
  /\ peer.no_client

====
